---------------------------- MODULE Spec2Model ----------------------------
(***************************************************************************)
(* Remimazolam TCI V3.3: bolus + continuous infusion protocol engine.      *)
(*                                                                         *)
(* Numbers.  JavaScript numbers are IEEE doubles.  Two encodings are used: *)
(*                                                                         *)
(*  - Fixed point ("Fx"): masses, concentrations, rate constants and       *)
(*    infusion rates are integers counting millionths (SCALE).  NaN and    *)
(*    +Infinity are two reserved integers outside the finite range; every  *)
(*    operator propagates them the way IEEE arithmetic does.               *)
(*                                                                         *)
(*  - Exact doubles ("Dbl"): the simulated clock i * 0.1, the grid         *)
(*    accumulator rate += 0.1 and the comparisons made on them are decided *)
(*    by IEEE rounding, so they are modelled exactly.  A double x of those *)
(*    computations is the pair <<n, e>> with x = n/10 + e * U, where       *)
(*    U = 2^-56 / 5: n counts tenths and e is the rounding error.          *)
(***************************************************************************)
EXTENDS Integers, Sequences, FiniteSets, TLC

(***************************************************************************)
(* Fixed-point arithmetic with NaN and Infinity                            *)
(***************************************************************************)
LIMB      == 10 * 10 * 10
SCALE     == LIMB * LIMB
NaN       == 0 - (2000 * SCALE + 1)
Infinity  == 2000 * SCALE + 1

\* A decimal literal of the source: whole + millionths / 10^6.
Lit(whole, millionths) == whole * SCALE + millionths

IsNaN(x)    == x = NaN
IsFinite(x) == x # NaN /\ x # Infinity

Abs(x) == IF x < 0 THEN 0 - x ELSE x
Sgn(x) == IF x < 0 THEN 0 - 1 ELSE 1

\* |x| * |y| / SCALE rounded to nearest, on three limbs of 1000 so that no
\* intermediate product leaves 32 bits.
MulAbs(x, y) ==
    LET x2 == x \div SCALE
        x1 == (x \div LIMB) % LIMB
        x0 == x % LIMB
        y2 == y \div SCALE
        y1 == (y \div LIMB) % LIMB
        y0 == y % LIMB
        hi == x2 * y2 * SCALE + (x2 * y1 + x1 * y2) * LIMB
              + (x2 * y0 + x1 * y1 + x0 * y2)
        lo == (x1 * y0 + x0 * y1) * LIMB + x0 * y0
    IN  hi + ((lo + (SCALE \div 2)) \div SCALE)

\* (r * 10^k) / b by long division, one decimal digit at a time; r < b.
RECURSIVE DivDigits(_, _, _, _)
DivDigits(r, b, k, acc) ==
    IF k = 0
    THEN IF 2 * r >= b THEN acc + 1 ELSE acc
    ELSE DivDigits((r * 10) % b, b, k - 1, acc * 10 + ((r * 10) \div b))

DivAbs(x, y) == (x \div y) * SCALE + DivDigits(x % y, y, 6, 0)

\* a + b
FAdd(a, b) ==
    IF IsNaN(a) \/ IsNaN(b) THEN NaN
    ELSE IF a = Infinity \/ b = Infinity THEN Infinity
    ELSE a + b

\* a - b   (Infinity - Infinity is NaN)
FSub(a, b) ==
    IF IsNaN(a) \/ IsNaN(b) THEN NaN
    ELSE IF a = Infinity /\ b = Infinity THEN NaN
    ELSE IF a = Infinity THEN Infinity
    ELSE IF b = Infinity THEN NaN   \* -Infinity: not produced by the modelled calls
    ELSE a - b

\* a * b
FMul(a, b) ==
    IF IsNaN(a) \/ IsNaN(b) THEN NaN
    ELSE IF a = Infinity \/ b = Infinity
         THEN (IF a = 0 \/ b = 0 THEN NaN ELSE Infinity)
    ELSE Sgn(a) * Sgn(b) * MulAbs(Abs(a), Abs(b))

\* a / b   (x / 0 is Infinity for x > 0 and NaN for x = 0)
FDiv(a, b) ==
    IF IsNaN(a) \/ IsNaN(b) THEN NaN
    ELSE IF a = Infinity THEN (IF b = Infinity THEN NaN ELSE Infinity)
    ELSE IF b = Infinity THEN 0
    ELSE IF b = 0 THEN (IF a = 0 THEN NaN ELSE Infinity)
    ELSE Sgn(a) * Sgn(b) * DivAbs(Abs(a), Abs(b))

\* Math.abs
FAbs(a) == IF IsNaN(a) THEN NaN ELSE IF a = Infinity THEN Infinity ELSE Abs(a)

\* Math.max(a, b): NaN if either argument is NaN
FMax(a, b) ==
    IF IsNaN(a) \/ IsNaN(b) THEN NaN
    ELSE IF a >= b THEN a ELSE b

\* The comparison operators: every comparison with NaN is false.
FLt(a, b) == ~IsNaN(a) /\ ~IsNaN(b) /\ a < b
FGt(a, b) == ~IsNaN(a) /\ ~IsNaN(b) /\ a > b
FLe(a, b) == ~IsNaN(a) /\ ~IsNaN(b) /\ a <= b
FGe(a, b) == ~IsNaN(a) /\ ~IsNaN(b) /\ a >= b

(***************************************************************************)
(* Exact doubles <<n, e>> = n/10 + e * U, U = 2^-56 / 5, for values in     *)
(* [2^-4, 2^8).  n/10 is n * 2^55 units of U, and one ulp of the binade    *)
(* [2^E, 2^(E+1)) is 2^(E-52) = 5 * 2^(E+4) units, so the remainder of a   *)
(* value modulo its ulp is computed on small integers.                     *)
(***************************************************************************)
\* 2^j mod 5
Pow2Mod5(j) == <<1, 2, 4, 3>>[(j % 4) + 1]

\* value < 2^p
DblBelowPow2(n, e, p) ==
    IF p >= 0
    THEN n < 10 * (2 ^ p) \/ (n = 10 * (2 ^ p) /\ e < 0)
    ELSE n * (2 ^ (0 - p)) < 10 \/ (n * (2 ^ (0 - p)) = 10 /\ e < 0)

\* The binade E of a positive value: 2^E <= value < 2^(E+1)
DblBinade(n, e) ==
    CHOOSE E \in (0 - 4) .. 7 : ~DblBelowPow2(n, e, E) /\ DblBelowPow2(n, e, E + 1)

\* value modulo 5 * 2^(E+4) units
DblRem(n, e, E) ==
    ((2 ^ (E + 4)) * (((n % 5) * Pow2Mod5(51 - E)) % 5) + e) % (5 * (2 ^ (E + 4)))

\* Round a non-negative exact value to the nearest double, ties to even.
DblRound(n, e) ==
    IF n = 0 /\ e = 0 THEN <<0, 0>>
    ELSE LET E    == DblBinade(n, e)
             ulp  == 5 * (2 ^ (E + 4))
             r    == DblRem(n, e, E)
             even == DblRem(n, e, E + 1) = r
         IN  IF 2 * r < ulp \/ (2 * r = ulp /\ even)
             THEN <<n, e - r>>
             ELSE <<n, e - r + ulp>>

\* The literal 0.1 is the double 1/10 + 2U (10 * 0x1999999999999A = 2^56 + 4).
DblTenth == <<1, 2>>

\* A decimal literal with one fractional digit, and an integer literal.
DblLit(tenths)  == DblRound(tenths, 0)
DblInt(k)       == <<10 * k, 0>>

\* i * 0.1 for an integer i >= 0
DblTimesTenth(i) == DblRound(i, 2 * i)

\* x + y for x, y >= 0
DblAdd(x, y) == DblRound(x[1] + y[1], x[2] + y[2])

\* x - y for x >= y (y may be negative: the initial lastAdjustmentTime)
DblSub(x, y) == DblRound(x[1] - y[1], x[2] - y[2])

DblLe(x, y) == x[1] < y[1] \/ (x[1] = y[1] /\ x[2] <= y[2])
DblGe(x, y) == DblLe(y, x)

\* The fixed-point value nearest to a double (|e| * U is far below 10^-6).
DblToFx(x) == x[1] * (SCALE \div 10)

(***************************************************************************)
(* MasuiModelConstants                                                     *)
(***************************************************************************)
THETA_1  == Lit(3, 570000)
THETA_2  == Lit(11, 300000)
THETA_3  == Lit(27, 200000)
THETA_4  == Lit(1, 30000)
THETA_5  == Lit(1, 100000)
THETA_6  == Lit(0, 401000)
THETA_8  == Lit(0, 308000)
THETA_9  == Lit(0, 146000)
THETA_10 == 0 - Lit(0, 184000)
STANDARD_WEIGHT == Lit(67, 300000)
STANDARD_AGE    == Lit(54, 0)

DEFAULT_TARGET_REACH_TIME     == DblInt(20)
DEFAULT_UPPER_THRESHOLD_RATIO == Lit(1, 200000)
OPTIMIZED_REDUCTION_FACTOR    == Lit(0, 700000)
TIME_STEP          == Lit(0, 100000)
MIN_INFUSION_RATE  == Lit(0, 100000)
MAX_INFUSION_RATE  == Lit(6, 0)
MIN_BOLUS_DOSE     == Lit(1, 0)
MAX_BOLUS_DOSE     == Lit(15, 0)

SIMULATION_DURATION == 180

\* OPTIMIZATION_MIN_RATE = 0.3, OPTIMIZATION_MAX_RATE = 4.0 and
\* OPTIMIZATION_STEP = 0.1 as the doubles the loop of optimizeContinuousRate
\* computes with.
OPTIMIZATION_MIN_RATE == DblLit(3)
OPTIMIZATION_MAX_RATE == DblInt(4)
OPTIMIZATION_STEP     == DblTenth

\* minimumInterval = 5.0
minimumInterval == DblInt(5)

(***************************************************************************)
(* Patient                                                                 *)
(***************************************************************************)
\* patientId is a sequence of characters; sex is 0 (male) or 1 (female),
\* asaPS is 0 (ASA I-II) or 1 (ASA III-IV).
Patient(patientId, age, weight, height, sex, asaPS) ==
    [patientId |-> patientId, age |-> age, weight |-> weight, height |-> height,
     sex |-> sex, asaPS |-> asaPS]

\* String.prototype.trim
RECURSIVE trimStart(_)
trimStart(str) ==
    IF str # <<>> /\ Head(str) = " " THEN trimStart(Tail(str)) ELSE str

RECURSIVE trimEnd(_)
trimEnd(str) ==
    IF str # <<>> /\ str[Len(str)] = " " THEN trimEnd(SubSeq(str, 1, Len(str) - 1))
    ELSE str

trim(str) == trimEnd(trimStart(str))

\* Math.pow(base, exponent) where the model needs it: a NaN base, base 1
\* and the square.
Pow(base, exponent) ==
    IF IsNaN(base) THEN NaN
    ELSE IF exponent = Lit(2, 0) THEN FMul(base, base)
    ELSE CASE base = Lit(1, 0) -> Lit(1, 0)

\* Patient.getBMI
getBMI(patient) ==
    FDiv(patient.weight, Pow(FDiv(patient.height, Lit(100, 0)), Lit(2, 0)))

\* Patient.validate: the errors array, one tag per message
validateErrors(patient) ==
    LET bmi == getBMI(patient)
    IN  (IF patient.patientId = <<>> \/ Len(trim(patient.patientId)) = 0
         THEN <<"patientId">> ELSE <<>>)
        \o (IF FLt(patient.age, Lit(18, 0)) \/ FGt(patient.age, Lit(80, 0))
            THEN <<"age">> ELSE <<>>)
        \o (IF FLt(patient.weight, Lit(40, 0)) \/ FGt(patient.weight, Lit(120, 0))
            THEN <<"weight">> ELSE <<>>)
        \o (IF FLt(bmi, Lit(16, 0)) \/ FGt(bmi, Lit(40, 0))
            THEN <<"bmi">> ELSE <<>>)

validate(patient) ==
    [isValid |-> Len(validateErrors(patient)) = 0, errors |-> validateErrors(patient)]

(***************************************************************************)
(* PKParameters and the rate constants                                     *)
(***************************************************************************)
PKParameters(v1, v2, v3, cl, q2, q3, ke0) ==
    [v1 |-> v1, v2 |-> v2, v3 |-> v3, cl |-> cl, q2 |-> q2, q3 |-> q3, ke0 |-> ke0]

getK10(pk) == FDiv(pk.cl, pk.v1)
getK12(pk) == FDiv(pk.q2, pk.v1)
getK21(pk) == FDiv(pk.q2, pk.v2)
getK13(pk) == FDiv(pk.q3, pk.v1)
getK31(pk) == FDiv(pk.q3, pk.v3)

(***************************************************************************)
(* PKParameterCalculator.calculatePKParameters(patient); ke0 is what       *)
(* MasuiKe0Calculator.calculateKe0(age, weight, height, sex, asaPS)        *)
(* answers for this patient.                                               *)
(***************************************************************************)
calculatePKParameters(patient, ke0) ==
    LET weightRatio == FDiv(patient.weight, STANDARD_WEIGHT)
        ageRatio    == FDiv(patient.age, STANDARD_AGE)
        v1 == FMul(FMul(THETA_1, Pow(weightRatio, Lit(0, 750000))),
                   FAdd(Lit(1, 0), FMul(THETA_8, patient.sex)))
        v2 == FMul(FMul(THETA_2, Pow(weightRatio, THETA_4)),
                   FAdd(Lit(1, 0), FMul(THETA_9, FSub(ageRatio, Lit(1, 0)))))
        v3 == FMul(THETA_3, Pow(weightRatio, THETA_5))
        cl == FMul(FMul(THETA_6, Pow(weightRatio, Lit(0, 750000))),
                   FAdd(Lit(1, 0), FMul(THETA_10, patient.asaPS)))
        q2 == FMul(Lit(0, 800000), cl)
        q3 == FMul(Lit(0, 300000), cl)
    IN  PKParameters(v1, v2, v3, cl, q2, q3, ke0)

(***************************************************************************)
(* BolusOptimizer: initial state, RK4 stepper, open-loop simulation        *)
(***************************************************************************)
calculateBolusInitialState(pk, bolusDoseMg) ==
    [a1 |-> bolusDoseMg, a2 |-> 0, a3 |-> 0,
     plasmaConc |-> FDiv(bolusDoseMg, pk.v1), effectSiteConc |-> 0]

\* derivatives(s) of updateSystemStateRK4
derivatives(s, infusionRateMgMin, k10, k12, k21, k13, k31) ==
    [da1dt |-> FAdd(FAdd(FSub(infusionRateMgMin,
                              FMul(FAdd(FAdd(k10, k12), k13), s.a1)),
                         FMul(k21, s.a2)),
                    FMul(k31, s.a3)),
     da2dt |-> FSub(FMul(k12, s.a1), FMul(k21, s.a2)),
     da3dt |-> FSub(FMul(k13, s.a1), FMul(k31, s.a3))]

\* state + c * k, the argument of one Runge-Kutta stage
rkStage(state, c, k) ==
    [a1 |-> FAdd(state.a1, FMul(c, k.da1dt)),
     a2 |-> FAdd(state.a2, FMul(c, k.da2dt)),
     a3 |-> FAdd(state.a3, FMul(c, k.da3dt))]

\* k1 + 2*k2 + 2*k3 + k4
rkSum(k1, k2, k3, k4) ==
    FAdd(FAdd(FAdd(k1, FMul(Lit(2, 0), k2)), FMul(Lit(2, 0), k3)), k4)

updateSystemStateRK4(pk, state, infusionRateMgMin, dt) ==
    LET k10 == getK10(pk)
        k12 == getK12(pk)
        k21 == getK21(pk)
        k13 == getK13(pk)
        k31 == getK31(pk)
        half == FMul(Lit(0, 500000), dt)
        k1 == derivatives(state, infusionRateMgMin, k10, k12, k21, k13, k31)
        k2 == derivatives(rkStage(state, half, k1), infusionRateMgMin, k10, k12, k21, k13, k31)
        k3 == derivatives(rkStage(state, half, k2), infusionRateMgMin, k10, k12, k21, k13, k31)
        k4 == derivatives(rkStage(state, dt, k3), infusionRateMgMin, k10, k12, k21, k13, k31)
        w  == FDiv(dt, Lit(6, 0))
    IN  [a1 |-> FAdd(state.a1, FMul(w, rkSum(k1.da1dt, k2.da1dt, k3.da1dt, k4.da1dt))),
         a2 |-> FAdd(state.a2, FMul(w, rkSum(k1.da2dt, k2.da2dt, k3.da2dt, k4.da2dt))),
         a3 |-> FAdd(state.a3, FMul(w, rkSum(k1.da3dt, k2.da3dt, k3.da3dt, k4.da3dt)))]

\* currentCe + timeStep * (ke0 * (plasmaConc - currentCe))
effectSiteUpdate(pk, currentCe_, plasmaConc) ==
    FAdd(currentCe_, FMul(TIME_STEP, FMul(pk.ke0, FSub(plasmaConc, currentCe_))))

\* Variant: a rate below MIN_INFUSION_RATE is delivered as MIN_INFUSION_RATE.
infusionRateMgMinFloored(rate, weight) ==
    FDiv(FMul(FMax(MIN_INFUSION_RATE, rate), weight), Lit(60, 0))

\* (continuousRate * weight) / 60.0
infusionRateMgMinOf(rate, weight) == FDiv(FMul(rate, weight), Lit(60, 0))

\* Math.floor(x / 0.1) for a double x = <<k, e>> >= 0.  The exact quotient is
\* k - (2k - e) * 2^-55 / (1 + 2^-54); it rounds up to k exactly when
\* 2k - e <= 4 * 2^E, where 2^E < k <= 2^(E+1) (half the spacing of the
\* doubles below k), and otherwise stays below k.
FloorOverTenth(x) ==
    LET k == x[1]
    IN  IF k <= 0 THEN 0
        ELSE LET B == CHOOSE b \in {2 ^ j : j \in 1 .. 14} : b < 4 * k /\ 4 * k <= 2 * b
             IN  IF 2 * k - x[2] <= B THEN k ELSE k - 1

(***************************************************************************)
(* BolusThresholdSimulator.simulateCompleteProtocol: the pieces of one     *)
(* loop iteration                                                          *)
(***************************************************************************)
\* thresholdParams.targetCe * thresholdParams.upperThresholdRatio
upperThresholdOf(thresholdParams) ==
    FMul(thresholdParams.targetCe, thresholdParams.upperThresholdRatio)

\* Variant: the clock itself is compared with the interval.
intervalSinceStart(currentTime, lastAdjustmentTime_) ==
    DblGe(currentTime, minimumInterval)

\* Variant: four minutes between adjustments are enough.
intervalElapsedAfterFour(currentTime, lastAdjustmentTime_) ==
    DblGe(DblSub(currentTime, lastAdjustmentTime_), DblInt(4))

\* currentTime - lastAdjustmentTime >= minimumInterval
intervalElapsed(currentTime, lastAdjustmentTime_) ==
    DblGe(DblSub(currentTime, lastAdjustmentTime_), minimumInterval)

\* Variant: the rate floor is not looked at.
adjustmentDueAtAnyRate(ce, upperThreshold, currentTime, lastAdjustmentTime_, rate) ==
    /\ FGe(ce, upperThreshold)
    /\ DblGe(DblSub(currentTime, lastAdjustmentTime_), minimumInterval)

\* The condition of the threshold check
adjustmentDue(ce, upperThreshold, currentTime, lastAdjustmentTime_, rate) ==
    /\ FGe(ce, upperThreshold)
    /\ intervalElapsed(currentTime, lastAdjustmentTime_)
    /\ FGt(rate, MIN_INFUSION_RATE)

\* Math.max(MIN_INFUSION_RATE, currentRate * reductionFactor)
reducedRate(rate, reductionFactor) ==
    FMax(MIN_INFUSION_RATE, FMul(rate, reductionFactor))

\* ((oldRate - currentRate) / oldRate) * 100
reductionPercentOf(oldRate, newRate) ==
    FMul(FDiv(FSub(oldRate, newRate), oldRate), Lit(100, 0))

\* Variant: the value of adjustmentCount++
postIncrement(count) == count

\* Variant: oldRate is read after currentRate was reduced.
adjustmentEventAfterUpdate(currentTime, oldRate, newRate, ce, count) ==
    [time |-> currentTime, oldRate |-> newRate, newRate |-> newRate, ceAtEvent |-> ce,
     reductionPercent |-> 0, adjustmentNumber |-> count + 1]

\* The value of ++adjustmentCount
preIncrement(count) == count + 1

\* parseFloat(currentTime.toFixed(1)), in tenths of a minute: the error part
\* of a clock value is far below 0.05.
toFixed1(currentTime) == currentTime[1]

\* The record pushed to dosageAdjustments
adjustmentEvent(currentTime, oldRate, newRate, ce, count) ==
    [time |-> currentTime, oldRate |-> oldRate, newRate |-> newRate, ceAtEvent |-> ce,
     reductionPercent |-> reductionPercentOf(oldRate, newRate),
     adjustmentNumber |-> preIncrement(count)]

\* Ce after the effect-site update of iteration i of simulateCompleteProtocol
simCeUpdate(pk, idx, ce, plasmaConc) ==
    IF idx > 0 THEN effectSiteUpdate(pk, ce, plasmaConc) ELSE ce


\* Variant: the sample at the end of the horizon is left out.
numStepsWithoutEnd == FloorOverTenth(DblInt(SIMULATION_DURATION))

\* numSteps = Math.floor(SIMULATION_DURATION / this.timeStep) + 1
simNumSteps == FloorOverTenth(DblInt(SIMULATION_DURATION)) + 1

(***************************************************************************)
(* BolusThresholdSimulator.evaluatePerformance(timeSeriesData, targetCe),  *)
(* folded over the samples as they are pushed: the size of the maintenance *)
(* window (time >= 60), the samples of it within 10 % of the target and    *)
(* the largest ce of the whole series.                                     *)
(***************************************************************************)
\* Math.abs(point.ce - targetCe) <= targetCe * 0.1
withinTolerance(ce, targetCe) ==
    FLe(FAbs(FSub(ce, targetCe)), FMul(targetCe, Lit(0, 100000)))

\* The sample `point`, pushed onto a series of `len` samples
perfPush(acc, len, point, targetCe) ==
    LET maintained == point.time >= 60 * 10
    IN  [maintenance     |-> acc.maintenance + (IF maintained THEN 1 ELSE 0),
         withinTolerance |-> acc.withinTolerance +
                             (IF maintained /\ withinTolerance(point.ce, targetCe)
                              THEN 1 ELSE 0),
         maxCe           |-> IF len = 0 THEN point.ce ELSE FMax(acc.maxCe, point.ce)]

\* (count / total) * 100 for a count of a non-empty total
percentOf(count, total) ==
    ((count * 100) \div total) * SCALE
      + ((((count * 100) % total) * SCALE) \div total)

\* finalCe, maxCe and targetAccuracy of the record evaluatePerformance returns
performanceOf(acc, last) ==
    IF acc.maintenance = 0
    THEN [finalCe |-> 0, maxCe |-> 0, targetAccuracy |-> 0]
    ELSE [finalCe |-> last.ce, maxCe |-> acc.maxCe,
          targetAccuracy |-> percentOf(acc.withinTolerance, acc.maintenance)]

(***************************************************************************)
(* BolusThresholdSimulator.evaluatePerformance(timeSeriesData, targetCe)   *)
(* on a series given whole: a sequence of points with time (in tenths of a *)
(* minute) and ce                                                          *)
(***************************************************************************)
\* Math.max(...timeSeriesData.map(point => point.ce)) of a non-empty series
RECURSIVE maxCeOf(_)
maxCeOf(series) ==
    IF Len(series) = 1 THEN series[1].ce
    ELSE FMax(series[1].ce, maxCeOf(Tail(series)))

\* deviations.reduce((sum, dev) => sum + dev, 0)
RECURSIVE sumOfDeviations(_, _)
sumOfDeviations(series, targetCe) ==
    IF series = <<>> THEN 0
    ELSE FAdd(sumOfDeviations(SubSeq(series, 1, Len(series) - 1), targetCe),
              FAbs(FSub(series[Len(series)].ce, targetCe)))

\* totalVariation after the loop over maintenanceData
RECURSIVE totalVariationOf(_)
totalVariationOf(series) ==
    IF Len(series) <= 1 THEN 0
    ELSE FAdd(totalVariationOf(SubSeq(series, 1, Len(series) - 1)),
              FAbs(FSub(series[Len(series)].ce, series[Len(series) - 1].ce)))

\* convergenceTime after the loop over timeSeriesData
RECURSIVE convergenceTimeOf(_, _)
convergenceTimeOf(series, targetCe) ==
    IF series = <<>> THEN Infinity
    ELSE IF FLe(FAbs(FSub(series[1].ce, targetCe)), FMul(targetCe, Lit(0, 50000)))
         THEN series[1].time
         ELSE convergenceTimeOf(Tail(series), targetCe)

\* Variant: an empty window is reported as no deviation at all.
emptyWindowZeroMetrics ==
    [finalCe |-> 0, maxCe |-> 0, avgDeviation |-> 0, targetAccuracy |-> Lit(100, 0),
     stabilityIndex |-> 0, convergenceTime |-> Infinity]

\* The record returned when maintenanceData is empty
emptyWindowMetrics ==
    [finalCe |-> 0, maxCe |-> 0, avgDeviation |-> Infinity, targetAccuracy |-> 0,
     stabilityIndex |-> 0, convergenceTime |-> Infinity]

\* timeSeriesData.filter(point => point.time >= 60)
maintenanceDataOf(timeSeriesData) ==
    SelectSeq(timeSeriesData, LAMBDA point : point.time >= 60 * 10)

evaluatePerformance(timeSeriesData, targetCe) ==
    LET maintenanceData == maintenanceDataOf(timeSeriesData)
        within == SelectSeq(maintenanceData,
                            LAMBDA point : withinTolerance(point.ce, targetCe))
        avgVariation == FDiv(totalVariationOf(maintenanceData),
                             Lit(Len(maintenanceData) - 1, 0))
    IN  IF Len(maintenanceData) = 0 THEN emptyWindowMetrics
        ELSE [finalCe         |-> timeSeriesData[Len(timeSeriesData)].ce,
              maxCe           |-> maxCeOf(timeSeriesData),
              avgDeviation    |-> FDiv(sumOfDeviations(maintenanceData, targetCe),
                                       Lit(Len(maintenanceData), 0)),
              targetAccuracy  |-> percentOf(Len(within), Len(maintenanceData)),
              stabilityIndex  |-> FMax(0, FSub(Lit(100, 0),
                                               FMul(avgVariation, Lit(1000, 0)))),
              convergenceTime |-> convergenceTimeOf(timeSeriesData, targetCe)]

(***************************************************************************)
(* BolusOptimizationCalculator, the engine with fixed parameters: its      *)
(* constructor, calculateBolusInitialConcentration and                     *)
(* evaluateBolusPerformance                                                *)
(***************************************************************************)
BolusOptimizationCalculator ==
    [v1 |-> Lit(3, 570000), v2 |-> Lit(11, 300000), v3 |-> Lit(27, 200000),
     cl |-> Lit(0, 401000), q2 |-> FMul(Lit(0, 800000), Lit(0, 401000)),
     q3 |-> FMul(Lit(0, 300000), Lit(0, 401000)), ke0 |-> Lit(0, 120000),
     weight |-> Lit(70, 0), targetCe |-> Lit(1, 0), upperThreshold |-> Lit(1, 200000),
     reductionFactor |-> Lit(0, 700000), timeStep |-> Lit(0, 100000),
     simulationDuration |-> 180]

\* Variant: the bolus enters the central compartment per kilogram.
calculateBolusInitialConcentrationPerKg(this, bolusDoseMg) ==
    LET bolusDosePerKg    == FDiv(bolusDoseMg, this.weight)
        initialPlasmaConc == FDiv(bolusDosePerKg, this.v1)
    IN  [a1 |-> bolusDosePerKg, a2 |-> 0, a3 |-> 0,
         plasmaConc |-> initialPlasmaConc, effectSiteConc |-> 0]

calculateBolusInitialConcentration(this, bolusDoseMg) ==
    LET bolusDosePerKg    == FDiv(bolusDoseMg, this.weight)
        initialPlasmaConc == FDiv(bolusDosePerKg, this.v1)
    IN  [a1 |-> bolusDoseMg, a2 |-> 0, a3 |-> 0,
         plasmaConc |-> initialPlasmaConc, effectSiteConc |-> 0]

evaluateBolusPerformance(this, timeSeriesData, adjustments) ==
    LET maintenanceData == maintenanceDataOf(timeSeriesData)
        within == SelectSeq(maintenanceData,
                            LAMBDA point : withinTolerance(point.ce, this.targetCe))
    IN  IF Len(maintenanceData) = 0
        THEN [finalCe |-> 0, avgDeviation |-> Infinity, targetAccuracy |-> 0,
              totalAdjustments |-> Len(adjustments), maxCe |-> 0]
        ELSE [finalCe          |-> timeSeriesData[Len(timeSeriesData)].ce,
              avgDeviation     |-> FDiv(sumOfDeviations(maintenanceData, this.targetCe),
                                        Lit(Len(maintenanceData), 0)),
              targetAccuracy   |-> percentOf(Len(within), Len(maintenanceData)),
              totalAdjustments |-> Len(adjustments),
              maxCe            |-> maxCeOf(timeSeriesData)]

(***************************************************************************)
(* BolusProtocolCalculator: the pure parts                                 *)
(***************************************************************************)
\* The range checks of calculateBolusProtocol
bolusDoseRejected(bolusDoseMg) ==
    FLt(bolusDoseMg, MIN_BOLUS_DOSE) \/ FGt(bolusDoseMg, MAX_BOLUS_DOSE)

targetCeRejected(targetCe) ==
    FLt(targetCe, Lit(0, 500000)) \/ FGt(targetCe, Lit(3, 0))

defaultParams(targetCe) ==
    [targetReachTime     |-> DEFAULT_TARGET_REACH_TIME,
     upperThresholdRatio |-> DEFAULT_UPPER_THRESHOLD_RATIO,
     reductionFactor     |-> OPTIMIZED_REDUCTION_FACTOR,
     targetCe            |-> targetCe]

\* { ...defaults, ...protocolParams }
spread(defaults, protocolParams) ==
    [k \in DOMAIN defaults \cup DOMAIN protocolParams |->
        IF k \in DOMAIN protocolParams THEN protocolParams[k] ELSE defaults[k]]

\* Number.prototype.toFixed(digits) of a fixed-point value, as a number of
\* units of 10^-digits (digits <= 6); NaN prints as "NaN".
RECURSIVE Pow10(_)
Pow10(k) == IF k = 0 THEN 1 ELSE 10 * Pow10(k - 1)

toFixed(x, digits) ==
    IF IsNaN(x) THEN NaN
    ELSE LET unit == Pow10(6 - digits)
         IN  Sgn(x) * ((Abs(x) + unit \div 2) \div unit)

\* adjustment.time.toFixed(0) of a clock value n/10 + e*U
timeToFixed0(time) ==
    (time[1] \div 10)
      + (IF time[1] % 10 > 5 \/ (time[1] % 10 = 5 /\ time[2] >= 0) THEN 1 ELSE 0)

\* Variant: the reductions are numbered from 2.
generateClinicalProtocolFromTwo(bolusDoseMg, continuousRate, adjustments, patient) ==
    <<[step |-> 1, method |-> "bolus", dose |-> bolusDoseMg, totalDose |-> bolusDoseMg,
       timing |-> 0, notes |-> 0],
      [step |-> 2, method |-> "continuous_start", dose |-> toFixed(continuousRate, 2),
       totalDose |-> toFixed(FMul(continuousRate, patient.weight), 1),
       timing |-> 0, notes |-> 0]>>
    \o [index \in 1..Len(adjustments) |->
          [step      |-> (index - 1) + 2,
           method    |-> "threshold_reduction",
           dose      |-> toFixed(adjustments[index].newRate, 2),
           totalDose |-> toFixed(FMul(adjustments[index].newRate, patient.weight), 1),
           timing    |-> timeToFixed0(adjustments[index].time),
           notes     |-> toFixed(adjustments[index].reductionPercent, 0)]]

\* generateClinicalProtocol(bolusDoseMg, continuousRate, adjustments, patient)
generateClinicalProtocol(bolusDoseMg, continuousRate, adjustments, patient) ==
    <<[step |-> 1, method |-> "bolus", dose |-> bolusDoseMg, totalDose |-> bolusDoseMg,
       timing |-> 0, notes |-> 0],
      [step |-> 2, method |-> "continuous_start", dose |-> toFixed(continuousRate, 2),
       totalDose |-> toFixed(FMul(continuousRate, patient.weight), 1),
       timing |-> 0, notes |-> 0]>>
    \o [index \in 1..Len(adjustments) |->
          [step      |-> (index - 1) + 3,
           method    |-> "threshold_reduction",
           dose      |-> toFixed(adjustments[index].newRate, 2),
           totalDose |-> toFixed(FMul(adjustments[index].newRate, patient.weight), 1),
           timing    |-> timeToFixed0(adjustments[index].time),
           notes     |-> toFixed(adjustments[index].reductionPercent, 0)]]

testBolusDoses == <<Lit(3, 0), Lit(5, 0), Lit(7, 0), Lit(10, 0)>>

\* Variant: the simplicity bonus is given for at most one adjustment.
getRecommendationLevelAtMostOne(performance, adjustments) ==
    LET targetDeviation == FAbs(FSub(performance.finalCe, Lit(1, 0)))
        accuracy        == performance.targetAccuracy
        bonus1          == IF adjustments <= 1 THEN Lit(10, 0) ELSE 0
        bonus2          == IF FLt(targetDeviation, Lit(0, 100000)) THEN Lit(15, 0) ELSE 0
        score           == FAdd(FAdd(accuracy, bonus1), bonus2)
    IN  IF FGe(score, Lit(90, 0)) THEN "recommended"
        ELSE IF FGe(score, Lit(75, 0)) THEN "good"
        ELSE IF FGe(score, Lit(60, 0)) THEN "acceptable"
        ELSE "needs_review"

\* getRecommendationLevel(performance, adjustmentCount)
getRecommendationLevel(performance, adjustments) ==
    LET targetDeviation == FAbs(FSub(performance.finalCe, Lit(1, 0)))
        accuracy        == performance.targetAccuracy
        bonus1          == IF adjustments = 1 THEN Lit(10, 0) ELSE 0
        bonus2          == IF FLt(targetDeviation, Lit(0, 100000)) THEN Lit(15, 0) ELSE 0
        score           == FAdd(FAdd(accuracy, bonus1), bonus2)
    IN  IF FGe(score, Lit(90, 0)) THEN "recommended"
        ELSE IF FGe(score, Lit(75, 0)) THEN "good"
        ELSE IF FGe(score, Lit(60, 0)) THEN "acceptable"
        ELSE "needs_review"

\* Variant: the row reports the peak concentration as the final one.
comparisonRowWithPeak(testBolus, optimalRate, performance, adjustments) ==
    [bolusDose |-> testBolus, optimalRate |-> optimalRate,
     finalCe |-> performance.maxCe, targetAccuracy |-> performance.targetAccuracy,
     adjustmentCount |-> adjustments,
     recommendation |-> "needs_review"]

\* The row generateBolusComparison pushes for testBolus
comparisonRow(testBolus, optimalRate, performance, adjustments) ==
    [bolusDose |-> testBolus, optimalRate |-> optimalRate,
     finalCe |-> performance.finalCe, targetAccuracy |-> performance.targetAccuracy,
     adjustmentCount |-> adjustments,
     recommendation |-> getRecommendationLevel(performance, adjustments)]

(***************************************************************************)
(* State                                                                   *)
(***************************************************************************)
VARIABLES
    pc,                  \* where the program is
    sim,                 \* the simulator (pkParams, patient weight) and the
                         \* arguments of its running simulateCompleteProtocol call
    \* simulateCompleteProtocol
    i,                   \* the loop index
    state,               \* compartment masses a1, a2, a3
    currentCe,
    currentRate,
    lastAdjustmentTime,
    adjustmentCount,
    dosageAdjustments,   \* the adjustment log
    timeSeriesLen,       \* timeSeriesData.length
    lastSample,          \* timeSeriesData[timeSeriesData.length - 1]
    rk4Rate,             \* the infusionRateMgMin of the latest RK4 call
    perfAcc,             \* what evaluatePerformance reads off timeSeriesData
    trajectoryDigest,    \* a running checksum of timeSeriesData, which is not
                         \* kept whole
    \* optimizeContinuousRate
    opt,                 \* the optimizer (pkParams, patient weight) and the
                         \* arguments of its running optimizeContinuousRate call
    testRates,
    rateIdx,             \* position of the for-of loop in testRates (from 1)
    bestRate,
    bestError,
    optimizationResults,
    \* simulateBolusAndContinuous
    bcRate,              \* its continuousRate argument
    bcStep,              \* its loop index
    bcState,             \* its compartment masses
    bcCe,                \* its currentCe
    optimizationResult,  \* what optimizeContinuousRate returned
    \* calculateBolusProtocol
    request,             \* its arguments, and the ke0 oracle's answer
    finalParams,
    pkParams,
    frame,               \* who called the optimizer and the simulator:
                         \* "none", "main" (calculateBolusProtocol itself) or
                         \* "comparison" (generateBolusComparison)
    mainRun,             \* optimizationResult and simulationResult of "main"
    clinicalProtocol,
    doseIdx,             \* position of the for-of loop in testBolusDoses
    comparisonResults,
    warnings,            \* the doses console.warn has reported as failed
    outcome,             \* what calculateBolusProtocol returned or threw
    calls,               \* the completed calculateBolusProtocol calls of the
                         \* caller: their arguments and outcomes
    direct,              \* a direct call of one of the pure methods: its
                         \* arguments and what it returned
    fixed,               \* the running call of a BolusOptimizationCalculator
                         \* method: its arguments and locals
    app                  \* RemimazolamBolusApp: currentResults and the parts of
                         \* the page its handlers write

optVars == <<opt, testRates, rateIdx, bestRate, bestError, optimizationResults,
             bcRate, bcStep, bcState, bcCe, optimizationResult>>
simVars == <<i, state, currentCe, currentRate, lastAdjustmentTime, adjustmentCount,
             dosageAdjustments, timeSeriesLen, lastSample, rk4Rate, perfAcc,
             trajectoryDigest>>
protoVars == <<request, finalParams, pkParams, frame, mainRun, clinicalProtocol,
               doseIdx, comparisonResults, warnings, outcome, calls, direct, fixed,
               app>>
vars == <<pc, sim, simVars, optVars, protoVars>>

\* The checksum of a series with `point` pushed onto a series of checksum h
digestPush(h, point) ==
    (31 * h + (point.time + point.adjustmentNumber)
       + (point.ce % 1000003) + (point.plasma % 1000003)
       + (point.infusionRate % 1000003)) % 1000003

NoSample == [time |-> 0 - 1, ce |-> 0, plasma |-> 0, infusionRate |-> 0,
             adjustmentNumber |-> 0, isBolus |-> FALSE]
NoState  == [a1 |-> 0, a2 |-> 0, a3 |-> 0]
NoPerf   == [maintenance |-> 0, withinTolerance |-> 0, maxCe |-> 0]

NoSim == [pk |-> PKParameters(0, 0, 0, 0, 0, 0, 0), weight |-> 0, bolusDoseMg |-> 0,
          initialContinuousRate |-> 0,
          thresholdParams |-> [targetCe |-> 0, upperThresholdRatio |-> 0,
                               reductionFactor |-> 0]]

simIdle ==
    /\ sim = NoSim
    /\ i = 0 /\ state = NoState /\ currentCe = 0 /\ currentRate = 0
    /\ lastAdjustmentTime = <<0, 0>> /\ adjustmentCount = 0
    /\ dosageAdjustments = <<>> /\ timeSeriesLen = 0 /\ lastSample = NoSample
    /\ rk4Rate = 0 /\ perfAcc = NoPerf /\ trajectoryDigest = 0

(***************************************************************************)
(* simulateCompleteProtocol(bolusDoseMg, initialContinuousRate,            *)
(* thresholdParams) on a simulator built for (patient, pkParams)           *)
(***************************************************************************)
\* Entry: the declarations before the loop.
simEnter(pk, weight, bolusDoseMg, initialContinuousRate, thresholdParams) ==
    LET bolusState == calculateBolusInitialState(pk, bolusDoseMg)
    IN  /\ sim' = [pk |-> pk, weight |-> weight, bolusDoseMg |-> bolusDoseMg,
                   initialContinuousRate |-> initialContinuousRate,
                   thresholdParams |-> thresholdParams]
        /\ state' = [a1 |-> bolusState.a1, a2 |-> bolusState.a2, a3 |-> bolusState.a3]
        /\ currentCe' = bolusState.effectSiteConc
        /\ currentRate' = initialContinuousRate
        /\ lastAdjustmentTime' = <<0 - minimumInterval[1], 0>>
        /\ adjustmentCount' = 0
        /\ dosageAdjustments' = <<>>
        /\ timeSeriesLen' = 0
        /\ lastSample' = NoSample
        /\ i' = 0
        /\ rk4Rate' = 0
        /\ perfAcc' = NoPerf
        /\ trajectoryDigest' = 0

\* One iteration of the loop.
simIteration ==
    LET pk                == sim.pk
        weight            == sim.weight
        thresholdParams   == sim.thresholdParams
        currentTime       == DblTimesTenth(i)
        infusionRateMgMin == infusionRateMgMinOf(currentRate, weight)
        plasmaConc        == FDiv(state.a1, pk.v1)
        ce                == simCeUpdate(pk, i, currentCe, plasmaConc)
        due               == adjustmentDue(ce, upperThresholdOf(thresholdParams),
                                           currentTime, lastAdjustmentTime, currentRate)
        newRate           == IF due THEN reducedRate(currentRate, thresholdParams.reductionFactor)
                             ELSE currentRate
    IN  /\ i < simNumSteps
        /\ currentCe' = ce
        /\ currentRate' = newRate
        /\ adjustmentCount' = IF due THEN adjustmentCount + 1 ELSE adjustmentCount
        /\ dosageAdjustments' =
              IF due
              THEN Append(dosageAdjustments,
                          adjustmentEvent(currentTime, currentRate, newRate, ce,
                                          adjustmentCount))
              ELSE dosageAdjustments
        /\ lastAdjustmentTime' = IF due THEN currentTime ELSE lastAdjustmentTime
        /\ timeSeriesLen' = timeSeriesLen + 1
        /\ lastSample' = [time |-> toFixed1(currentTime), ce |-> ce, plasma |-> plasmaConc,
                          infusionRate |-> newRate,
                          adjustmentNumber |-> adjustmentCount',
                          isBolus |-> (i = 0)]
        /\ IF i < simNumSteps - 1
           THEN /\ state' = updateSystemStateRK4(pk, state, infusionRateMgMin, TIME_STEP)
                /\ rk4Rate' = infusionRateMgMin
           ELSE UNCHANGED <<state, rk4Rate>>
        /\ perfAcc' = perfPush(perfAcc, timeSeriesLen, lastSample', thresholdParams.targetCe)
        /\ trajectoryDigest' = digestPush(trajectoryDigest, lastSample')
        /\ i' = i + 1
        /\ UNCHANGED sim

(***************************************************************************)
(* BolusOptimizer.optimizeContinuousRate(bolusDoseMg, targetCe,            *)
(* targetReachTime) on an optimizer built for (patient, pkParams)          *)
(***************************************************************************)
NoOpt == [pk |-> PKParameters(0, 0, 0, 0, 0, 0, 0), weight |-> 0, bolusDoseMg |-> 0,
          targetCe |-> 0, targetReachTime |-> <<0, 0>>]
NoResult == [optimalRate |-> <<0, 0>>, predictedCe |-> 0, error |-> 0,
             relativeError |-> 0, allResults |-> <<>>]

optIdle ==
    /\ opt = NoOpt /\ testRates = <<>> /\ rateIdx = 0 /\ bestRate = <<0, 0>>
    /\ bestError = 0 /\ optimizationResults = <<>> /\ bcRate = <<0, 0>>
    /\ bcStep = 0 /\ bcState = NoState /\ bcCe = 0 /\ optimizationResult = NoResult

\* for (let rate = MIN; rate <= MAX; rate += STEP) testRates.push(rate)
RECURSIVE testRatesFrom(_, _)
testRatesFrom(rate, acc) ==
    IF DblLe(rate, OPTIMIZATION_MAX_RATE)
    THEN testRatesFrom(DblAdd(rate, OPTIMIZATION_STEP), Append(acc, rate))
    ELSE acc

buildTestRates == testRatesFrom(OPTIMIZATION_MIN_RATE, <<>>)

\* Entry of simulateBolusAndContinuous(bolusDoseMg, continuousRate, targetTime)
bcEnter(pk, bolusDoseMg, continuousRate) ==
    LET bolusState == calculateBolusInitialState(pk, bolusDoseMg)
    IN  /\ bcRate' = continuousRate
        /\ bcState' = [a1 |-> bolusState.a1, a2 |-> bolusState.a2, a3 |-> bolusState.a3]
        /\ bcCe' = bolusState.effectSiteConc
        /\ bcStep' = 0

\* numSteps of the running simulateBolusAndContinuous call
bcNumSteps == FloorOverTenth(opt.targetReachTime)

\* One iteration of the loop of simulateBolusAndContinuous
bcIteration ==
    LET infusionRateMgMin == infusionRateMgMinOf(DblToFx(bcRate), opt.weight)
        plasmaConc        == FDiv(bcState.a1, opt.pk.v1)
    IN  /\ bcStep < bcNumSteps
        /\ bcCe' = effectSiteUpdate(opt.pk, bcCe, plasmaConc)
        /\ bcState' = updateSystemStateRK4(opt.pk, bcState, infusionRateMgMin, TIME_STEP)
        /\ bcStep' = bcStep + 1
        /\ UNCHANGED bcRate

\* Entry of optimizeContinuousRate: the grid, the incumbent, and the call of
\* simulateBolusAndContinuous for the first candidate.
optEnter(pk, weight, bolusDoseMg, targetCe, targetReachTime) ==
    /\ opt' = [pk |-> pk, weight |-> weight, bolusDoseMg |-> bolusDoseMg,
               targetCe |-> targetCe, targetReachTime |-> targetReachTime]
    /\ testRates' = buildTestRates
    /\ bestRate' = DblInt(1)
    /\ bestError' = Infinity
    /\ optimizationResults' = <<>>
    /\ rateIdx' = 1
    /\ bcEnter(pk, bolusDoseMg, buildTestRates[1])
    /\ optimizationResult' = NoResult

\* Variant: a tie replaces the incumbent.
improvesOrTies(error, best) == FLe(error, best)

\* error < bestError
improves(error, best) == FLt(error, best)

\* The body of the for-of loop once simulateBolusAndContinuous has returned
\* ceAtTarget for testRates[rateIdx]; then the next candidate's call, or after
\* the last candidate the call for predictedCe.
optCandidate ==
    LET testRate      == testRates[rateIdx]
        ceAtTarget    == bcCe
        error         == FAbs(FSub(ceAtTarget, opt.targetCe))
        relativeError == FMul(FDiv(error, opt.targetCe), Lit(100, 0))
        better        == improves(error, bestError)
        newBest       == IF better THEN testRate ELSE bestRate
    IN  /\ rateIdx <= Len(testRates)
        /\ ~(bcStep < bcNumSteps)
        /\ optimizationResults' =
              Append(optimizationResults,
                     [rate |-> testRate, ceAtTarget |-> ceAtTarget, error |-> error,
                      relativeError |-> relativeError])
        /\ bestError' = IF better THEN error ELSE bestError
        /\ bestRate' = newBest
        /\ rateIdx' = rateIdx + 1
        /\ IF rateIdx < Len(testRates)
           THEN bcEnter(opt.pk, opt.bolusDoseMg, testRates[rateIdx + 1])
           ELSE bcEnter(opt.pk, opt.bolusDoseMg, newBest)
        /\ UNCHANGED <<opt, testRates, optimizationResult>>

\* The return statement, once simulateBolusAndContinuous has returned
\* predictedCe for bestRate.
optReturn ==
    /\ rateIdx > Len(testRates)
    /\ ~(bcStep < bcNumSteps)
    /\ optimizationResult' =
          [optimalRate |-> bestRate, predictedCe |-> bcCe, error |-> bestError,
           relativeError |-> FMul(FDiv(bestError, opt.targetCe), Lit(100, 0)),
           allResults |-> optimizationResults]
    /\ UNCHANGED <<opt, testRates, rateIdx, bestRate, bestError, optimizationResults,
                   bcRate, bcStep, bcState, bcCe>>

(***************************************************************************)
(* Frames: the locals of a call are gone once it has returned or thrown.   *)
(***************************************************************************)
NoPK == PKParameters(0, 0, 0, 0, 0, 0, 0)
NoDirect == [method |-> "none"]
NoFixed == [method |-> "none"]
NoApp == [constructed |-> FALSE]
NoRequest == [patient |-> Patient(<<>>, 0, 0, 0, 0, 0), bolusDoseMg |-> 0, targetCe |-> 0,
              protocolParams |-> <<>>, ke0 |-> 0]
NoRun == [optimizationResult |-> NoResult, dosageAdjustments |-> <<>>,
          performance |-> [finalCe |-> 0, maxCe |-> 0, targetAccuracy |-> 0],
          samples |-> 0, digest |-> 0]

calculatorIdle ==
    /\ request = NoRequest /\ finalParams = <<>> /\ pkParams = NoPK /\ frame = "none"
    /\ mainRun = NoRun /\ clinicalProtocol = <<>> /\ doseIdx = 0
    /\ comparisonResults = <<>> /\ warnings = <<>> /\ outcome = [kind |-> "none"]
    /\ calls = <<>> /\ direct = NoDirect /\ fixed = NoFixed

protoIdle == calculatorIdle /\ app = NoApp

simReset ==
    /\ sim' = NoSim
    /\ i' = 0 /\ state' = NoState /\ currentCe' = 0 /\ currentRate' = 0
    /\ lastAdjustmentTime' = <<0, 0>> /\ adjustmentCount' = 0
    /\ dosageAdjustments' = <<>> /\ timeSeriesLen' = 0 /\ lastSample' = NoSample
    /\ rk4Rate' = 0 /\ perfAcc' = NoPerf /\ trajectoryDigest' = 0

optReset ==
    /\ opt' = NoOpt /\ testRates' = <<>> /\ rateIdx' = 0 /\ bestRate' = <<0, 0>>
    /\ bestError' = 0 /\ optimizationResults' = <<>> /\ bcRate' = <<0, 0>>
    /\ bcStep' = 0 /\ bcState' = NoState /\ bcCe' = 0 /\ optimizationResult' = NoResult

(***************************************************************************)
(* Steps of the two loops, whoever called                                  *)
(***************************************************************************)
\* An iteration of simulateBolusAndContinuous, called from optimizeContinuousRate
BcStep ==
    /\ pc = "optimize"
    /\ bcIteration
    /\ UNCHANGED <<pc, sim, simVars, opt, testRates, rateIdx, bestRate, bestError,
                   optimizationResults, optimizationResult, protoVars>>

OptCandidate ==
    /\ pc = "optimize"
    /\ optCandidate
    /\ UNCHANGED <<pc, sim, simVars, protoVars>>

SimStep ==
    /\ pc = "simulate"
    /\ simIteration
    /\ UNCHANGED <<pc, optVars, protoVars>>

(***************************************************************************)
(* Direct calls of simulateCompleteProtocol                                *)
(***************************************************************************)
\* The PK parameters of the fixed-reference patient (weightRatio = ageRatio = 1,
\* male, ASA I-II) with ke0 = 0.12.
ReferencePK ==
    PKParameters(THETA_1, THETA_2, THETA_3, THETA_6,
                 FMul(Lit(0, 800000), THETA_6), FMul(Lit(0, 300000), THETA_6),
                 Lit(0, 120000))

ThresholdParams(targetCe, upperThresholdRatio, reductionFactor) ==
    [targetCe |-> targetCe, upperThresholdRatio |-> upperThresholdRatio,
     reductionFactor |-> reductionFactor]

\* <<bolusDoseMg, initialContinuousRate, thresholdParams>>
SimCalls ==
    { <<Lit(7, 0),  Lit(0, 700000), ThresholdParams(Lit(1, 0), Lit(1, 200000), Lit(0, 700000))>>,
      <<Lit(15, 0), Lit(4, 0),      ThresholdParams(Lit(0, 500000), Lit(1, 200000), Lit(0, 700000))>>,
      <<Lit(3, 0),  Lit(2, 0),      ThresholdParams(Lit(0, 500000), Lit(1, 200000), Lit(0, 700000))>>,
      <<Lit(7, 0),  Lit(0, 600000), ThresholdParams(Lit(1, 0), Lit(1, 200000), Lit(1, 100000))>>,
      <<Lit(7, 0),  Lit(2, 0),      ThresholdParams(Lit(1, 0), Lit(0, 0), Lit(0, 0))>>,
      <<Lit(7, 0),  Lit(0, 100000), ThresholdParams(Lit(0, 500000), Lit(1, 0), Lit(0, 700000))>>,
      <<NaN,        Lit(1, 0),      ThresholdParams(Lit(1, 0), Lit(1, 200000), Lit(0, 700000))>>,
      <<Lit(10, 0), Lit(3, 0),      ThresholdParams(Lit(1, 0), Lit(1, 200000), NaN)>>,
      <<Lit(0, 0),  Lit(0, 0),      ThresholdParams(Lit(1, 0), Lit(1, 200000), Lit(0, 700000))>>,
      <<Lit(0, 0),  Lit(0, 0),      ThresholdParams(Lit(1, 0), Lit(0, 0), Lit(0, 700000))>>,
      <<Lit(7, 0),  Lit(0, 500000), ThresholdParams(Lit(1, 0), Lit(0, 0), Lit(1, 0))>> }

SimCall ==
    /\ pc = "idle"
    /\ \E c \in SimCalls :
          simEnter(ReferencePK, STANDARD_WEIGHT, c[1], c[2], c[3])
    /\ pc' = "simulate"
    /\ UNCHANGED <<optVars, protoVars>>

SimReturn ==
    /\ pc = "simulate"
    /\ frame = "none"
    /\ ~(i < simNumSteps)
    /\ pc' = "returned"
    /\ UNCHANGED <<sim, simVars, optVars, protoVars>>

SimInit == pc = "idle" /\ simIdle /\ optIdle /\ protoIdle
SimNext == SimCall \/ SimStep \/ SimReturn
SimSpec == SimInit /\ [][SimNext]_vars

(***************************************************************************)
(* Direct calls of optimizeContinuousRate                                  *)
(***************************************************************************)
\* <<bolusDoseMg, targetCe, targetReachTime>>
OptCalls ==
    { <<Lit(7, 0),  Lit(1, 0),      DEFAULT_TARGET_REACH_TIME>>,
      <<Lit(7, 0),  Lit(0, 450000), DblInt(2)>>,
      <<Lit(7, 0),  Lit(1, 0),      DblLit(0)>>,
      <<Lit(3, 0),  Lit(3, 0),      DblLit(3)>>,
      <<Lit(15, 0), Lit(0, 500000), DblInt(1)>>,
      <<Lit(1, 0),  Lit(3, 0),      DblInt(1)>>,
      <<Lit(7, 0),  NaN,            DblInt(1)>>,
      <<NaN,        Lit(1, 0),      DblLit(5)>> }

OptCall ==
    /\ pc = "idle"
    /\ \E c \in OptCalls : optEnter(ReferencePK, STANDARD_WEIGHT, c[1], c[2], c[3])
    /\ pc' = "optimize"
    /\ UNCHANGED <<sim, simVars, protoVars>>

OptReturn ==
    /\ pc = "optimize"
    /\ frame = "none"
    /\ optReturn
    /\ pc' = "returned"
    /\ UNCHANGED <<sim, simVars, protoVars>>

OptInit == pc = "idle" /\ simIdle /\ optIdle /\ protoIdle
OptNext == OptCall \/ BcStep \/ OptCandidate \/ OptReturn
OptSpec == OptInit /\ [][OptNext]_vars

(***************************************************************************)
(* BolusProtocolCalculator.calculateBolusProtocol(patient, bolusDoseMg,    *)
(* targetCe, protocolParams)                                               *)
(***************************************************************************)
Request(patient, bolusDoseMg, targetCe, protocolParams, ke0) ==
    [patient |-> patient, bolusDoseMg |-> bolusDoseMg, targetCe |-> targetCe,
     protocolParams |-> protocolParams, ke0 |-> ke0]

\* What the validation block throws for a request: <<>> if it throws nothing
rejection(r) ==
    IF ~validate(r.patient).isValid THEN <<"patient">> \o validate(r.patient).errors
    ELSE IF bolusDoseRejected(r.bolusDoseMg) THEN <<"bolusDose">>
    ELSE IF targetCeRejected(r.targetCe) THEN <<"targetCe">>
    ELSE <<>>

\* The validation block throws: nothing else has run.
ProtocolThrow(requests) ==
    /\ pc = "idle"
    /\ \E r \in requests :
          /\ rejection(r) # <<>>
          /\ request' = r
          /\ outcome' = [kind |-> "error", error |-> rejection(r)]
    /\ pc' = "thrown"
    /\ UNCHANGED <<sim, simVars, optVars, finalParams, pkParams, frame, mainRun,
                   clinicalProtocol, doseIdx, comparisonResults, warnings, calls,
                   direct, fixed, app>>

\* The validation block passes: finalParams, pkParams, and the call of
\* optimizeContinuousRate.
protocolStart(r) ==
    LET params == spread(defaultParams(r.targetCe), r.protocolParams)
        pk     == calculatePKParameters(r.patient, r.ke0)
    IN  /\ rejection(r) = <<>>
        /\ request' = r
        /\ finalParams' = params
        /\ pkParams' = pk
        /\ optEnter(pk, r.patient.weight, r.bolusDoseMg, r.targetCe,
                    params.targetReachTime)
        /\ frame' = "main"
        /\ pc' = "optimize"
        /\ UNCHANGED <<sim, simVars, mainRun, clinicalProtocol, doseIdx,
                       comparisonResults, warnings, outcome, calls, direct, fixed>>

ProtocolStart(requests) ==
    /\ pc = "idle"
    /\ \E r \in requests : protocolStart(r)
    /\ UNCHANGED app

\* optimizeContinuousRate returns to calculateBolusProtocol or to
\* generateBolusComparison, which calls simulateCompleteProtocol with
\* optimizationResult.optimalRate.
ProtocolSimulate ==
    /\ pc = "optimize"
    /\ frame \in {"main", "comparison"}
    /\ optReturn
    /\ simEnter(opt.pk, request.patient.weight, opt.bolusDoseMg, DblToFx(bestRate),
                finalParams)
    /\ pc' = "simulate"
    /\ UNCHANGED protoVars

\* pkParams of generateBolusComparison: the second calculatePKParameters call
comparisonPK == calculatePKParameters(request.patient, request.ke0)

\* Math.round(endTime - startTime) of two performance.now() readings: whatever
\* the wall clock says
ElapsedMs == 0..1

\* The object calculateBolusProtocol returns; simulationData is represented by
\* its length and its checksum
protocolResult(rows, calculationTime) ==
    [kind |-> "result", patient |-> request.patient, pkParams |-> pkParams,
     bolusDose |-> request.bolusDoseMg, targetCe |-> request.targetCe,
     optimalContinuousRate |-> mainRun.optimizationResult.optimalRate,
     optimizationResult |-> mainRun.optimizationResult,
     simulationSamples |-> mainRun.samples,
     simulationDigest |-> mainRun.digest,
     dosageAdjustments |-> mainRun.dosageAdjustments,
     performance |-> mainRun.performance,
     clinicalProtocol |-> clinicalProtocol,
     comparisonData |-> rows,
     protocolParams |-> finalParams,
     calculationTimeMs |-> calculationTime]

\* Variant: the comparison table is a field of the calculator that
\* generateBolusComparison does not clear.
ProtocolCompareKeepingRows ==
    /\ pc = "simulate"
    /\ frame = "main"
    /\ ~(i < simNumSteps)
    /\ mainRun' = [optimizationResult |-> optimizationResult,
                   dosageAdjustments |-> dosageAdjustments,
                   performance |-> performanceOf(perfAcc, lastSample),
                   samples |-> timeSeriesLen, digest |-> trajectoryDigest]
    /\ clinicalProtocol' =
          generateClinicalProtocol(request.bolusDoseMg,
                                   DblToFx(optimizationResult.optimalRate),
                                   dosageAdjustments, request.patient)
    /\ frame' = "comparison"
    /\ doseIdx' = 1
    /\ optEnter(comparisonPK, request.patient.weight, testBolusDoses[1],
                request.targetCe, finalParams.targetReachTime)
    /\ simReset
    /\ pc' = "optimize"
    /\ UNCHANGED <<request, finalParams, pkParams, comparisonResults, warnings, outcome,
                   calls, direct, fixed, app>>

\* simulateCompleteProtocol returns to calculateBolusProtocol:
\* generateClinicalProtocol, then generateBolusComparison up to its first
\* optimizeContinuousRate call.
ProtocolCompare ==
    /\ pc = "simulate"
    /\ frame = "main"
    /\ ~(i < simNumSteps)
    /\ mainRun' = [optimizationResult |-> optimizationResult,
                   dosageAdjustments |-> dosageAdjustments,
                   performance |-> performanceOf(perfAcc, lastSample),
                   samples |-> timeSeriesLen, digest |-> trajectoryDigest]
    /\ clinicalProtocol' =
          generateClinicalProtocol(request.bolusDoseMg,
                                   DblToFx(optimizationResult.optimalRate),
                                   dosageAdjustments, request.patient)
    /\ frame' = "comparison"
    /\ doseIdx' = 1
    /\ comparisonResults' = <<>>
    /\ optEnter(comparisonPK, request.patient.weight, testBolusDoses[1],
                request.targetCe, finalParams.targetReachTime)
    /\ simReset
    /\ pc' = "optimize"
    /\ UNCHANGED <<request, finalParams, pkParams, warnings, outcome, calls, direct, fixed, app>>

\* The for-of loop of generateBolusComparison moves on with the table `rows`:
\* the next dose's optimizeContinuousRate call, or after the last dose the
\* return of generateBolusComparison and of calculateBolusProtocol.
comparisonAdvance(rows) ==
    /\ comparisonResults' = rows
    /\ doseIdx' = doseIdx + 1
    /\ simReset
    /\ IF doseIdx < Len(testBolusDoses)
       THEN /\ optEnter(comparisonPK, request.patient.weight, testBolusDoses[doseIdx + 1],
                        request.targetCe, finalParams.targetReachTime)
            /\ pc' = "optimize"
            /\ UNCHANGED <<frame, outcome>>
       ELSE /\ optReset
            /\ frame' = "none"
            /\ \E calculationTime \in ElapsedMs :
                  outcome' = protocolResult(rows, calculationTime)
            /\ pc' = "returned"
    /\ UNCHANGED <<request, finalParams, pkParams, mainRun, clinicalProtocol, calls,
                   direct, fixed, app>>

\* simulateCompleteProtocol returns to generateBolusComparison: the row is
\* pushed.
ComparisonRow ==
    /\ pc = "simulate"
    /\ frame = "comparison"
    /\ ~(i < simNumSteps)
    /\ comparisonAdvance(
          Append(comparisonResults,
                 comparisonRow(testBolusDoses[doseIdx], optimizationResult.optimalRate,
                               performanceOf(perfAcc, lastSample),
                               Len(dosageAdjustments))))
    /\ UNCHANGED warnings

\* Variant: the catch block logs the failure and throws it on, out of
\* generateBolusComparison and calculateBolusProtocol.
ComparisonRethrow ==
    /\ pc \in {"optimize", "simulate"}
    /\ frame = "comparison"
    /\ warnings' = Append(warnings, testBolusDoses[doseIdx])
    /\ simReset
    /\ optReset
    /\ frame' = "none"
    /\ outcome' = [kind |-> "error", error |-> <<"comparison">>]
    /\ pc' = "thrown"
    /\ UNCHANGED <<request, finalParams, pkParams, mainRun, clinicalProtocol, doseIdx,
                   comparisonResults, calls, direct, fixed, app>>

\* Something inside the try block throws: the catch block logs it and the loop
\* goes on.
ComparisonCatch ==
    /\ pc \in {"optimize", "simulate"}
    /\ frame = "comparison"
    /\ warnings' = Append(warnings, testBolusDoses[doseIdx])
    /\ comparisonAdvance(comparisonResults)

ReferencePatient ==
    Patient(<<"P", "1">>, STANDARD_AGE, STANDARD_WEIGHT, Lit(170, 0), 0, 0)

\* The answers of the ke0 oracle
Ke0Reference == Lit(0, 120000)

\* protocolParams as the user interface passes them: all three overrides
Overrides(targetReachTime, upperThresholdRatio, reductionFactor) ==
    [targetReachTime |-> targetReachTime, upperThresholdRatio |-> upperThresholdRatio,
     reductionFactor |-> reductionFactor]

Requests ==
    { \* accepted
      Request(ReferencePatient, Lit(7, 0), Lit(1, 0), <<>>, Ke0Reference),
      Request(ReferencePatient, Lit(7, 0), Lit(1, 0),
              Overrides(DblLit(5), DEFAULT_UPPER_THRESHOLD_RATIO, Lit(1, 50000)),
              Ke0Reference),
      Request(Patient(<<"P", "2">>, Lit(72, 0), STANDARD_WEIGHT, Lit(160, 0), Lit(1, 0), Lit(1, 0)),
              Lit(15, 0), Lit(0, 500000), [targetReachTime |-> DblInt(1)], Lit(0, 200000)),
      Request(ReferencePatient, NaN, Lit(1, 0), [targetReachTime |-> DblLit(5)],
              Ke0Reference),
      Request(ReferencePatient, Lit(1, 0), NaN, [targetReachTime |-> DblLit(5)],
              Ke0Reference),
      Request(Patient(<<"P", "3">>, NaN, STANDARD_WEIGHT, Lit(170, 0), 0, 0),
              Lit(7, 0), Lit(3, 0), [targetReachTime |-> DblLit(5)], Ke0Reference),
      \* rejected
      Request(Patient(<<>>, STANDARD_AGE, STANDARD_WEIGHT, Lit(170, 0), 0, 0),
              Lit(7, 0), Lit(1, 0), <<>>, Ke0Reference),
      Request(Patient(<<" ", " ">>, Lit(17, 0), STANDARD_WEIGHT, Lit(170, 0), 0, 0),
              Lit(7, 0), Lit(1, 0), <<>>, Ke0Reference),
      Request(Patient(<<"P", "4">>, Lit(81, 0), Lit(130, 0), Lit(170, 0), 0, 0),
              Lit(7, 0), Lit(1, 0), <<>>, Ke0Reference),
      Request(Patient(<<"P", "5">>, STANDARD_AGE, Lit(40, 0), Lit(170, 0), 0, 0),
              Lit(7, 0), Lit(1, 0), <<>>, Ke0Reference),
      Request(ReferencePatient, Lit(0, 999999), Lit(1, 0), <<>>, Ke0Reference),
      Request(ReferencePatient, Lit(15, 1), Lit(1, 0), <<>>, Ke0Reference),
      Request(ReferencePatient, Lit(7, 0), Lit(0, 499999), <<>>, Ke0Reference),
      Request(ReferencePatient, Lit(7, 0), Lit(3, 1), <<>>, Ke0Reference),
      Request(ReferencePatient, Lit(0, 0), NaN, <<>>, Ke0Reference) }

ProtocolCall == ProtocolThrow(Requests) \/ ProtocolStart(Requests)

Init == pc = "idle" /\ simIdle /\ optIdle /\ protoIdle
Next ==
    \/ ProtocolCall
    \/ BcStep
    \/ OptCandidate
    \/ ProtocolSimulate
    \/ SimStep
    \/ ProtocolCompare
    \/ ComparisonRow
Spec == Init /\ [][Next]_vars

(***************************************************************************)
(* calculateBolusProtocol with exceptions inside the try block of          *)
(* generateBolusComparison                                                 *)
(***************************************************************************)
FaultRequests ==
    { Request(ReferencePatient, Lit(7, 0), Lit(1, 0),
              [targetReachTime |-> DblLit(5)], Ke0Reference),
      Request(ReferencePatient, Lit(0, 0), Lit(1, 0), <<>>, Ke0Reference) }

FaultCall == ProtocolThrow(FaultRequests) \/ ProtocolStart(FaultRequests)

FaultNext ==
    \/ FaultCall
    \/ BcStep
    \/ OptCandidate
    \/ ProtocolSimulate
    \/ SimStep
    \/ ProtocolCompare
    \/ ComparisonRow
    \/ ComparisonCatch
FaultSpec == Init /\ [][FaultNext]_vars

(***************************************************************************)
(* BolusOptimizationCalculator.simulateCompleteBolusProtocol(bolusDoseMg,  *)
(* initialContinuousRate), run side by side with simulateCompleteProtocol  *)
(* of a simulator built for the calculator's PK parameters and weight      *)
(***************************************************************************)
\* updateSystemStateRK4 of BolusOptimizationCalculator: the text of
\* BolusOptimizer.updateSystemStateRK4 with this.getK10() for
\* this.pkParams.getK10(), and so on
fixedUpdateSystemStateRK4(this, s, infusionRateMgMin, dt) ==
    updateSystemStateRK4(this, s, infusionRateMgMin, dt)

\* numSteps = Math.floor(this.simulationDuration / this.timeStep) + 1
fixedSimNumSteps(this) == FloorOverTenth(DblInt(this.simulationDuration)) + 1

\* Entry of simulateCompleteBolusProtocol: the declarations before the loop
fixedSimEnter(this, bolusDoseMg, initialContinuousRate) ==
    LET bolusState == calculateBolusInitialConcentration(this, bolusDoseMg)
    IN  [method |-> "simulateCompleteBolusProtocol", this |-> this,
         bolusDoseMg |-> bolusDoseMg, initialContinuousRate |-> initialContinuousRate,
         state |-> [a1 |-> bolusState.a1, a2 |-> bolusState.a2, a3 |-> bolusState.a3],
         currentCe |-> bolusState.effectSiteConc,
         currentRate |-> initialContinuousRate,
         timeSeriesLen |-> 0, lastSample |-> NoSample, dosageAdjustments |-> <<>>,
         lastAdjustmentTime |-> <<0 - DblInt(5)[1], 0>>,
         adjustmentCount |-> 0, i |-> 0]

\* One iteration of the loop of simulateCompleteBolusProtocol
fixedSimIteration(f) ==
    LET this              == f.this
        currentTime       == DblTimesTenth(f.i)
        infusionRateMgMin == FDiv(FMul(f.currentRate, this.weight), Lit(60, 0))
        plasmaConc        == FDiv(f.state.a1, this.v1)
        dCedt             == FMul(this.ke0, FSub(plasmaConc, f.currentCe))
        ce                == IF f.i > 0
                             THEN FAdd(f.currentCe, FMul(this.timeStep, dCedt))
                             ELSE f.currentCe
        due               == /\ FGe(ce, this.upperThreshold)
                             /\ DblGe(DblSub(currentTime, f.lastAdjustmentTime), DblInt(5))
                             /\ FGt(f.currentRate, Lit(0, 100000))
        newRate           == IF due
                             THEN FMax(Lit(0, 100000),
                                       FMul(f.currentRate, this.reductionFactor))
                             ELSE f.currentRate
        count             == IF due THEN f.adjustmentCount + 1 ELSE f.adjustmentCount
    IN  [f EXCEPT
           !.currentCe = ce,
           !.currentRate = newRate,
           !.adjustmentCount = count,
           !.dosageAdjustments =
               IF due
               THEN Append(@, [time |-> currentTime, oldRate |-> f.currentRate,
                               newRate |-> newRate, ceAtEvent |-> ce,
                               adjustmentNumber |-> count])
               ELSE @,
           !.lastAdjustmentTime = IF due THEN currentTime ELSE @,
           !.timeSeriesLen = @ + 1,
           !.lastSample = [time |-> toFixed1(currentTime), ce |-> ce,
                           plasma |-> plasmaConc, infusionRate |-> newRate,
                           adjustmentNumber |-> count, isBolus |-> (f.i = 0)],
           !.state = IF f.i < fixedSimNumSteps(this) - 1
                     THEN fixedUpdateSystemStateRK4(this, @, infusionRateMgMin,
                                                    this.timeStep)
                     ELSE @,
           !.i = @ + 1]

\* The PK parameters of a calculator, as the canonical engine holds them
pkParamsOf(this) ==
    PKParameters(this.v1, this.v2, this.v3, this.cl, this.q2, this.q3, this.ke0)

\* Calculators: as constructed, and with weight and ke0 overwritten
Calculators ==
    { BolusOptimizationCalculator,
      [BolusOptimizationCalculator EXCEPT !.weight = STANDARD_WEIGHT,
                                          !.ke0 = Lit(0, 200000)] }

\* <<bolusDoseMg, initialContinuousRate>>
EquivCalls ==
    { <<Lit(7, 0), Lit(0, 600000)>>, <<Lit(7, 0), Lit(1, 0)>>,
      <<Lit(15, 0), Lit(4, 0)>>, <<Lit(3, 0), Lit(0, 100000)>>,
      <<NaN, Lit(1, 0)>>, <<Lit(0, 0), Lit(0, 0)>> }

\* Both simulators are called with the same arguments.
EquivCall ==
    /\ pc = "idle"
    /\ fixed = NoFixed
    /\ \E this \in Calculators, c \in EquivCalls :
          /\ simEnter(pkParamsOf(this), this.weight, c[1], c[2],
                      ThresholdParams(this.targetCe, Lit(1, 200000), Lit(0, 700000)))
          /\ fixed' = fixedSimEnter(this, c[1], c[2])
    /\ pc' = "simulate"
    /\ UNCHANGED <<optVars, request, finalParams, pkParams, frame, mainRun,
                   clinicalProtocol, doseIdx, comparisonResults, warnings, outcome,
                   calls, direct, app>>

\* Both loops make their next iteration.
EquivStep ==
    /\ pc = "simulate"
    /\ fixed.method = "simulateCompleteBolusProtocol"
    /\ fixed.i < fixedSimNumSteps(fixed.this)
    /\ simIteration
    /\ fixed' = fixedSimIteration(fixed)
    /\ UNCHANGED <<pc, optVars, request, finalParams, pkParams, frame, mainRun,
                   clinicalProtocol, doseIdx, comparisonResults, warnings, outcome,
                   calls, direct, app>>

\* Both loops are over.
EquivReturn ==
    /\ pc = "simulate"
    /\ fixed.method = "simulateCompleteBolusProtocol"
    /\ ~(fixed.i < fixedSimNumSteps(fixed.this))
    /\ ~(i < simNumSteps)
    /\ pc' = "returned"
    /\ UNCHANGED <<sim, simVars, optVars, protoVars>>

(***************************************************************************)
(* BolusOptimizationCalculator.optimizeContinuousInfusionRate(bolusDoseMg, *)
(* targetCe, timeToTarget)                                                 *)
(***************************************************************************)
\* for (let rate = 0.5; rate <= 4.0; rate += 0.1) testRates.push(rate)
fixedTestRates == testRatesFrom(DblLit(5), <<>>)

\* Entry of the calculator's simulateBolusAndContinuous
fixedBcEnter(this, bolusDoseMg, continuousRate) ==
    LET bolusState == calculateBolusInitialConcentration(this, bolusDoseMg)
    IN  [continuousRate |-> continuousRate,
         state |-> [a1 |-> bolusState.a1, a2 |-> bolusState.a2, a3 |-> bolusState.a3],
         currentCe |-> bolusState.effectSiteConc, i |-> 0]

\* numSteps = Math.floor(targetTime / this.timeStep)
fixedBcNumSteps(f) == FloorOverTenth(f.timeToTarget)

\* One iteration of the loop of the calculator's simulateBolusAndContinuous
fixedBcIteration(this, bc) ==
    LET infusionRateMgMin == FDiv(FMul(DblToFx(bc.continuousRate), this.weight),
                                  Lit(60, 0))
        plasmaConc        == FDiv(bc.state.a1, this.v1)
        dCedt             == FMul(this.ke0, FSub(plasmaConc, bc.currentCe))
    IN  [bc EXCEPT
           !.currentCe = FAdd(@, FMul(this.timeStep, dCedt)),
           !.state = fixedUpdateSystemStateRK4(this, @, infusionRateMgMin, this.timeStep),
           !.i = @ + 1]

\* <<bolusDoseMg, targetCe, timeToTarget>>
FixedOptCalls ==
    { <<Lit(7, 0), Lit(1, 0), DblInt(20)>>,
      <<Lit(7, 0), Lit(1, 0), DblInt(1)>>,
      <<Lit(3, 0), Lit(0, 500000), DblInt(2)>> }

FixedOptCall ==
    /\ pc = "idle"
    /\ fixed = NoFixed
    /\ \E c \in FixedOptCalls :
          fixed' = [method |-> "optimizeContinuousInfusionRate",
                    this |-> BolusOptimizationCalculator,
                    bolusDoseMg |-> c[1], targetCe |-> c[2], timeToTarget |-> c[3],
                    testRates |-> fixedTestRates, rateIdx |-> 1,
                    bestRate |-> DblInt(1), bestError |-> Infinity, results |-> <<>>,
                    bc |-> fixedBcEnter(BolusOptimizationCalculator, c[1],
                                        fixedTestRates[1]),
                    result |-> NoResult]
    /\ pc' = "fixed_optimize"
    /\ UNCHANGED <<sim, simVars, optVars, request, finalParams, pkParams, frame,
                   mainRun, clinicalProtocol, doseIdx, comparisonResults, warnings,
                   outcome, calls, direct, app>>

\* `f` is the new value of the calculator's running call.
fixedStep(f) ==
    /\ fixed' = f
    /\ UNCHANGED <<sim, simVars, optVars, request, finalParams, pkParams, frame,
                   mainRun, clinicalProtocol, doseIdx, comparisonResults, warnings,
                   outcome, calls, direct, app>>

FixedBcStep ==
    /\ pc = "fixed_optimize"
    /\ fixed.bc.i < fixedBcNumSteps(fixed)
    /\ fixedStep([fixed EXCEPT !.bc = fixedBcIteration(fixed.this, @)])
    /\ UNCHANGED pc

\* The body of the for-of loop once simulateBolusAndContinuous has returned;
\* then the next candidate's call, or after the last candidate the call for
\* predictedCe.
FixedCandidate ==
    LET testRate   == fixed.testRates[fixed.rateIdx]
        ceAtTarget == fixed.bc.currentCe
        error      == FAbs(FSub(ceAtTarget, fixed.targetCe))
        better     == FLt(error, fixed.bestError)
        newBest    == IF better THEN testRate ELSE fixed.bestRate
    IN  /\ pc = "fixed_optimize"
        /\ fixed.rateIdx <= Len(fixed.testRates)
        /\ ~(fixed.bc.i < fixedBcNumSteps(fixed))
        /\ fixedStep([fixed EXCEPT
              !.results = Append(@, [rate |-> testRate, ceAtTarget |-> ceAtTarget,
                                     error |-> error,
                                     relativeError |->
                                         FMul(FDiv(error, fixed.targetCe), Lit(100, 0))]),
              !.bestError = IF better THEN error ELSE @,
              !.bestRate = newBest,
              !.rateIdx = @ + 1,
              !.bc = fixedBcEnter(fixed.this, fixed.bolusDoseMg,
                                  IF fixed.rateIdx < Len(fixed.testRates)
                                  THEN fixed.testRates[fixed.rateIdx + 1]
                                  ELSE newBest)])
        /\ UNCHANGED pc

\* The return statement, once simulateBolusAndContinuous has returned
\* predictedCe for bestRate
FixedOptReturn ==
    /\ pc = "fixed_optimize"
    /\ fixed.rateIdx > Len(fixed.testRates)
    /\ ~(fixed.bc.i < fixedBcNumSteps(fixed))
    /\ fixedStep([fixed EXCEPT
          !.result = [optimalRate |-> fixed.bestRate, predictedCe |-> fixed.bc.currentCe,
                      error |-> fixed.bestError, allResults |-> fixed.results]])
    /\ pc' = "returned"

FixedNext ==
    \/ EquivCall
    \/ EquivStep
    \/ EquivReturn
    \/ FixedOptCall
    \/ FixedBcStep
    \/ FixedCandidate
    \/ FixedOptReturn
FixedSpec == Init /\ [][FixedNext]_vars

(***************************************************************************)
(* calculateBolusProtocol called again after an earlier call               *)
(***************************************************************************)
\* How many calls are made before the one under observation
MaxEarlierCalls == 1

RepeatRequests ==
    { Request(ReferencePatient, Lit(7, 0), Lit(1, 0),
              [targetReachTime |-> DblLit(5)], Ke0Reference),
      Request(ReferencePatient, Lit(15, 1), Lit(1, 0), <<>>, Ke0Reference) }

RepeatCall == ProtocolThrow(RepeatRequests) \/ ProtocolStart(RepeatRequests)

\* The caller keeps what the call returned or threw and is about to call
\* again. Whatever the calculator and the objects it built still hold stays
\* as it is.
ProtocolAgain ==
    /\ pc \in {"returned", "thrown"}
    /\ Len(calls) < MaxEarlierCalls
    /\ calls' = Append(calls, [request |-> request, outcome |-> outcome])
    /\ pc' = "idle"
    /\ UNCHANGED <<sim, simVars, optVars, request, finalParams, pkParams, frame, mainRun,
                   clinicalProtocol, doseIdx, comparisonResults, warnings, outcome,
                   direct, fixed, app>>

RepeatNext ==
    \/ RepeatCall
    \/ BcStep
    \/ OptCandidate
    \/ ProtocolSimulate
    \/ SimStep
    \/ ProtocolCompare
    \/ ComparisonRow
    \/ ProtocolAgain
RepeatSpec == Init /\ [][RepeatNext]_vars

(***************************************************************************)
(* RemimazolamBolusApp: generateBolusOptimization, printProtocol and       *)
(* exportToCSV, called from the click handlers of the page                 *)
(***************************************************************************)
\* this.currentResults = null
NoResults == [kind |-> "none"]

\* What the last handler wrote to a print window or a download: nothing
NoOutput == <<>>

\* parseFloat of a field of the page: <<>> is a field without a number in it,
\* <<x>> one that holds x
parseFloat(field) == IF field = <<>> THEN NaN ELSE field[1]

\* parseFloat(field) || fallback: NaN and 0 are falsy
parseFloatOr(field, zero, fallback) ==
    IF field = <<>> \/ field[1] = zero THEN fallback ELSE field[1]

\* What the page holds when the button is clicked; ke0 is the answer of the
\* ke0 oracle for the patient
Form(patient, bolusDose, targetCe, targetReachTime, upperThresholdRatio, reductionFactor) ==
    [patient |-> patient, bolusDose |-> bolusDose, targetCe |-> targetCe,
     targetReachTime |-> targetReachTime, upperThresholdRatio |-> upperThresholdRatio,
     reductionFactor |-> reductionFactor, ke0 |-> Ke0Reference]

Forms ==
    { \* accepted; the two protocol fields fall back to 1.2 and 0.70
      Form(ReferencePatient, <<Lit(7, 0)>>, <<Lit(1, 0)>>, <<DblLit(5)>>, <<>>,
           <<Lit(0, 0)>>),
      \* patient.validate() fails
      Form(Patient(<<" ", " ">>, Lit(17, 0), STANDARD_WEIGHT, Lit(170, 0), 0, 0),
           <<Lit(7, 0)>>, <<Lit(1, 0)>>, <<>>, <<>>, <<>>),
      \* calculateBolusProtocol rejects the dose
      Form(ReferencePatient, <<Lit(15, 1)>>, <<Lit(1, 0)>>, <<DblInt(0)>>,
           <<Lit(1, 200000)>>, <<Lit(0, 700000)>>) }

\* The arguments of calculateBolusProtocol as generateBolusOptimization builds
\* them from the page
requestOf(form) ==
    Request(form.patient, parseFloat(form.bolusDose), parseFloat(form.targetCe),
            Overrides(parseFloatOr(form.targetReachTime, DblInt(0), DblInt(20)),
                      parseFloatOr(form.upperThresholdRatio, 0, Lit(1, 200000)),
                      parseFloatOr(form.reductionFactor, 0, Lit(0, 700000))),
            form.ke0)

showLoading(a, show) == [a EXCEPT !.buttonDisabled = show]

\* Variant: the results stay as they are when the warning comes up.
showWarningOverResults(a) == [a EXCEPT !.warningHidden = FALSE]

showWarning(a) == [a EXCEPT !.warningHidden = FALSE, !.resultsHidden = TRUE]

hideWarning(a) == [a EXCEPT !.warningHidden = TRUE]

\* displayResults up to the statement that throws, or to its end
displayResults(a, results) == [a EXCEPT !.resultsHidden = FALSE, !.rendered = results]

\* The catch block and the finally block of generateBolusOptimization
generateCaught(a) ==
    [showLoading(showWarning(a), FALSE) EXCEPT !.running = FALSE,
                                               !.lastGeneration = "failed"]

\* generatePrintContent(results), handed to the print window
generatePrintContent(results) ==
    [patientId |-> results.patient.patientId, bolusDose |-> results.bolusDose,
     optimalContinuousRate |-> toFixed(DblToFx(results.optimalContinuousRate), 2),
     targetCe |-> results.targetCe,
     finalCe |-> toFixed(results.performance.finalCe, 3),
     clinicalProtocol |-> results.clinicalProtocol]

\* The download of exportToCSV: convertToCSV(simulationData) is a header line
\* and one line for each sample
convertToCSV(results) ==
    [patientId |-> results.patient.patientId, lines |-> results.simulationSamples + 1,
     digest |-> results.simulationDigest]

\* The page as the constructor finds it: the sections shown or hidden, the
\* button enabled
AppInit ==
    /\ pc = "idle" /\ simIdle /\ optIdle /\ calculatorIdle
    /\ \E resultsHidden \in BOOLEAN, warningHidden \in BOOLEAN :
          app = [constructed |-> TRUE, currentResults |-> NoResults,
                 buttonDisabled |-> FALSE, resultsHidden |-> resultsHidden,
                 warningHidden |-> warningHidden, rendered |-> NoResults,
                 running |-> FALSE, lastGeneration |-> "none",
                 lastCall |-> [handler |-> "constructor", output |-> NoOutput]]

\* A click on the button: showLoading(true) and the try block up to the call
\* of calculateBolusProtocol. If the patient is invalid or the call throws in
\* its validation block, the catch and finally blocks follow at once.
GenerateClick ==
    /\ pc = "idle"
    /\ app.constructed
    /\ ~app.running
    /\ \E form \in Forms :
          LET loading == [showLoading(app, TRUE) EXCEPT
                            !.lastCall = [handler |-> "generateBolusOptimization",
                                          output |-> NoOutput]]
              r       == requestOf(form)
          IN  IF ~validate(form.patient).isValid \/ rejection(r) # <<>>
              THEN /\ app' = generateCaught(loading)
                   /\ UNCHANGED <<pc, sim, simVars, optVars, request, finalParams,
                                  pkParams, frame, mainRun, clinicalProtocol, doseIdx,
                                  comparisonResults, warnings, outcome, calls, direct,
                                  fixed>>
              ELSE /\ app' = [loading EXCEPT !.running = TRUE]
                   /\ protocolStart(r)

\* calculateBolusProtocol has returned: currentResults, displayResults, which
\* may throw while it fills the page, then hideWarning or the catch block, and
\* the finally block. The locals of the call are gone.
GenerateReturn ==
    /\ pc = "returned"
    /\ app.constructed
    /\ app.running
    /\ \E rendered \in BOOLEAN :
          LET shown == displayResults([app EXCEPT !.currentResults = outcome], outcome)
          IN  app' = IF rendered
                     THEN [showLoading(hideWarning(shown), FALSE) EXCEPT
                             !.running = FALSE, !.lastGeneration = "succeeded"]
                     ELSE generateCaught(shown)
    /\ request' = NoRequest /\ finalParams' = <<>> /\ pkParams' = NoPK
    /\ mainRun' = NoRun /\ clinicalProtocol' = <<>> /\ doseIdx' = 0
    /\ comparisonResults' = <<>> /\ outcome' = [kind |-> "none"]
    /\ pc' = "idle"
    /\ UNCHANGED <<sim, simVars, optVars, frame, warnings, calls, direct, fixed>>

\* `a` is the app after a handler that leaves the calculator alone.
appStep(a) ==
    /\ app' = a
    /\ UNCHANGED <<pc, sim, simVars, optVars, request, finalParams, pkParams, frame,
                   mainRun, clinicalProtocol, doseIdx, comparisonResults, warnings,
                   outcome, calls, direct, fixed>>

\* A click on the print button
PrintProtocol ==
    /\ pc = "idle"
    /\ app.constructed
    /\ ~app.running
    /\ appStep([app EXCEPT !.lastCall =
          [handler |-> "printProtocol",
           output |-> IF app.currentResults = NoResults THEN NoOutput
                      ELSE <<generatePrintContent(app.currentResults)>>]])

\* A click on the CSV button
ExportToCSV ==
    /\ pc = "idle"
    /\ app.constructed
    /\ ~app.running
    /\ appStep([app EXCEPT !.lastCall =
          [handler |-> "exportToCSV",
           output |-> IF app.currentResults = NoResults THEN NoOutput
                      ELSE <<convertToCSV(app.currentResults)>>]])

AppNext ==
    \/ GenerateClick
    \/ BcStep
    \/ OptCandidate
    \/ ProtocolSimulate
    \/ SimStep
    \/ ProtocolCompare
    \/ ComparisonRow
    \/ GenerateReturn
    \/ PrintProtocol
    \/ ExportToCSV
AppSpec == AppInit /\ [][AppNext]_vars

(***************************************************************************)
(* Direct calls of the methods that keep no state between their statements *)
(***************************************************************************)
\* The longest series handed to evaluatePerformance and
\* evaluateBolusPerformance
MaxSeriesLen == 3

\* Points of a series: before and inside the maintenance window, with a Ce
\* off the target, on it, within 10 % of it, and not a number
SeriesPoints ==
    [time : {0, 599, 600}, ce : {Lit(0, 400000), Lit(1, 0), Lit(1, 80000), NaN}]

Trajectories == UNION { [1..n -> SeriesPoints] : n \in 0..MaxSeriesLen }

\* performance records around the score thresholds 60, 75 and 90 with and
\* without the bonuses of 10 and 15
Performances ==
    [targetAccuracy : { Lit(0, 0), Lit(34, 999999), Lit(35, 0), Lit(49, 999999),
                        Lit(50, 0), Lit(59, 999999), Lit(60, 0), Lit(64, 999999),
                        Lit(65, 0), Lit(74, 999999), Lit(75, 0), Lit(79, 999999),
                        Lit(80, 0), Lit(89, 999999), Lit(90, 0), Lit(100, 0) },
     finalCe : { Lit(0, 0), Lit(0, 899999), Lit(0, 900001), Lit(1, 0), Lit(1, 99999),
                 Lit(1, 100000), NaN }]

BolusDoses == {Lit(0, 0), Lit(1, 0), Lit(3, 0), Lit(7, 0), Lit(15, 0), NaN}

\* A method is called with the arguments, and has returned the result, of
\* `record`.
directCall(record) ==
    /\ direct' = record
    /\ UNCHANGED <<pc, sim, simVars, optVars, request, finalParams, pkParams, frame,
                   mainRun, clinicalProtocol, doseIdx, comparisonResults, warnings,
                   outcome, calls, fixed, app>>

EvaluatePerformance ==
    /\ pc = "idle"
    /\ direct = NoDirect
    /\ \E series \in Trajectories, targetCe \in {Lit(1, 0), Lit(0, 500000)} :
           directCall([method |-> "evaluatePerformance",
                       timeSeriesData |-> series, targetCe |-> targetCe,
                       result |-> evaluatePerformance(series, targetCe)])

EvaluateBolusPerformance ==
    /\ pc = "idle"
    /\ direct = NoDirect
    /\ \E series \in Trajectories,
          adjustments \in {<<>>, <<[adjustmentNumber |-> 1]>>} :
           directCall([method |-> "evaluateBolusPerformance",
                       timeSeriesData |-> series, dosageAdjustments |-> adjustments,
                       result |-> evaluateBolusPerformance(BolusOptimizationCalculator,
                                                           series, adjustments)])

\* getRecommendationLevel, and the row generateBolusComparison pushes with it
GetRecommendationLevel ==
    /\ pc = "idle"
    /\ direct = NoDirect
    /\ \E performance \in Performances, adjustments \in 0..2 :
           directCall([method |-> "getRecommendationLevel",
                       performance |-> performance, adjustmentCount |-> adjustments,
                       result |-> getRecommendationLevel(performance, adjustments),
                       row |-> comparisonRow(testBolusDoses[1], OPTIMIZATION_MIN_RATE,
                                             performance, adjustments)])

CalculateBolusInitialState ==
    /\ pc = "idle"
    /\ direct = NoDirect
    /\ \E bolusDoseMg \in BolusDoses :
           directCall([method |-> "calculateBolusInitialState",
                       v1 |-> ReferencePK.v1, bolusDoseMg |-> bolusDoseMg,
                       result |-> calculateBolusInitialState(ReferencePK, bolusDoseMg)])

CalculateBolusInitialConcentration ==
    /\ pc = "idle"
    /\ direct = NoDirect
    /\ \E bolusDoseMg \in BolusDoses :
           directCall([method |-> "calculateBolusInitialConcentration",
                       v1 |-> BolusOptimizationCalculator.v1, bolusDoseMg |-> bolusDoseMg,
                       result |-> calculateBolusInitialConcentration(
                                      BolusOptimizationCalculator, bolusDoseMg)])

UnitInit == pc = "idle" /\ simIdle /\ optIdle /\ protoIdle
UnitNext ==
    \/ EvaluatePerformance
    \/ EvaluateBolusPerformance
    \/ GetRecommendationLevel
    \/ CalculateBolusInitialState
    \/ CalculateBolusInitialConcentration
UnitSpec == UnitInit /\ [][UnitNext]_vars

(***************************************************************************)
(* Properties of simulateCompleteProtocol                                  *)
(***************************************************************************)
\* C1. Debounce: in the adjustment log of any simulateCompleteProtocol run,
\* consecutive events are at least 5.0 minutes apart: the difference of
\* their clock values, as the program computes it, is >= 5.0, and they are
\* at least 50 steps of 0.1 min apart.
C1_Debounce ==
    \A k \in 1..(Len(dosageAdjustments) - 1) :
        LET earlier == dosageAdjustments[k].time
            later   == dosageAdjustments[k + 1].time
        IN  /\ DblGe(DblSub(later, earlier), DblInt(5))
            /\ later[1] - earlier[1] >= 5 * 10

\* A returned log with a pair of events 50 steps apart and a pair 51 steps
\* apart (50 steps later the computed difference was below 5.0).
C1_Witness ==
    /\ pc = "returned"
    /\ \E k \in 1..(Len(dosageAdjustments) - 1) :
          dosageAdjustments[k + 1].time[1] - dosageAdjustments[k].time[1] = 50
    /\ \E k \in 1..(Len(dosageAdjustments) - 1) :
          dosageAdjustments[k + 1].time[1] - dosageAdjustments[k].time[1] = 51

\* C3. Monotonic reduction: for a numeric reduction factor, every event has
\* newRate = max(MIN_INFUSION_RATE, oldRate * reductionFactor), and the
\* rates across the adjustments of one run never increase.
C3_MonotonicReduction ==
    IsFinite(sim.thresholdParams.reductionFactor) =>
        \A k \in 1..Len(dosageAdjustments) :
            LET e == dosageAdjustments[k]
            IN  /\ e.newRate = FMax(MIN_INFUSION_RATE,
                                    FMul(e.oldRate, sim.thresholdParams.reductionFactor))
                /\ FLe(e.newRate, e.oldRate)
                /\ k > 1 => FLe(e.newRate, dosageAdjustments[k - 1].newRate)

\* C4. Trigger rule: lastAdjustmentTime starts at -5.0, and the iteration at
\* step i (step 0 included) emits an event if and only if the Ce after this
\* step's update is >= targetCe * upperThresholdRatio, currentTime -
\* lastAdjustmentTime >= 5.0 and currentRate > MIN_INFUSION_RATE; an emitted
\* event is stamped with the current time, lastAdjustmentTime becomes the
\* current time and the count grows by one; otherwise all three stay.
C4_TriggerRule ==
    /\ []((pc = "simulate" /\ i = 0) => lastAdjustmentTime = <<0 - 50, 0>>)
    /\ [][(pc = "simulate" /\ i' = i + 1) =>
            LET currentTime == DblTimesTenth(i)
                trigger ==
                    /\ FGe(currentCe', FMul(sim.thresholdParams.targetCe,
                                            sim.thresholdParams.upperThresholdRatio))
                    /\ DblGe(DblSub(currentTime, lastAdjustmentTime), DblInt(5))
                    /\ FGt(currentRate, Lit(0, 100000))
            IN  IF trigger
                THEN /\ Len(dosageAdjustments') = Len(dosageAdjustments) + 1
                     /\ SubSeq(dosageAdjustments', 1, Len(dosageAdjustments))
                           = dosageAdjustments
                     /\ dosageAdjustments'[Len(dosageAdjustments')].time = currentTime
                     /\ lastAdjustmentTime' = currentTime
                     /\ adjustmentCount' = adjustmentCount + 1
                ELSE UNCHANGED <<dosageAdjustments, lastAdjustmentTime, adjustmentCount>>
       ]_vars

\* The first threshold crossing of a run has just been acted on, after step 0
\* and before 5 minutes have passed.
C4_Witness ==
    /\ pc = "simulate"
    /\ i >= 2 /\ i - 1 < 50
    /\ adjustmentCount = 1
    /\ Len(dosageAdjustments) = 1
    /\ lastAdjustmentTime = DblTimesTenth(i - 1)
    /\ lastSample.adjustmentNumber = 1

C12_ZeroInputStability ==
    (pc \in {"simulate", "returned"} /\ sim.bolusDoseMg = 0
       /\ sim.initialContinuousRate = 0) =>
        /\ state = [a1 |-> 0, a2 |-> 0, a3 |-> 0]
        /\ currentCe = 0
        /\ currentRate = 0
        /\ timeSeriesLen > 0 =>
              (lastSample.ce = 0 /\ lastSample.plasma = 0
                 /\ lastSample.infusionRate = 0 /\ lastSample.adjustmentNumber = 0)
        /\ dosageAdjustments = <<>>
        /\ adjustmentCount = 0

\* A run with zero dose, zero rate and a threshold of zero (Ce >= threshold
\* at every step) has returned its 1801 samples.
C12_Witness ==
    /\ pc = "returned"
    /\ sim.bolusDoseMg = 0 /\ sim.initialContinuousRate = 0
    /\ FMul(sim.thresholdParams.targetCe, sim.thresholdParams.upperThresholdRatio) = 0
    /\ timeSeriesLen = 1801
    /\ lastSample.ce = 0

\* C14. Adjustment log order: the k-th event of the log has adjustmentNumber
\* k, each event is later than the one before it (by the program's clock
\* values and by step index), and a step of the run leaves the log as it is
\* or appends one event to it.
C14_LogOrder ==
    /\ [](\A k \in 1..Len(dosageAdjustments) :
             /\ dosageAdjustments[k].adjustmentNumber = k
             /\ k > 1 =>
                   /\ dosageAdjustments[k].time[1] > dosageAdjustments[k - 1].time[1]
                   /\ ~DblLe(dosageAdjustments[k].time, dosageAdjustments[k - 1].time)
                   /\ dosageAdjustments[k].adjustmentNumber
                         > dosageAdjustments[k - 1].adjustmentNumber)
    /\ [][pc = "simulate" =>
            \/ dosageAdjustments' = dosageAdjustments
            \/ /\ Len(dosageAdjustments') = Len(dosageAdjustments) + 1
               /\ SubSeq(dosageAdjustments', 1, Len(dosageAdjustments)) = dosageAdjustments
       ]_vars

\* A returned log of at least three events.
C14_Witness ==
    /\ pc = "returned"
    /\ Len(dosageAdjustments) >= 3
    /\ dosageAdjustments[3].adjustmentNumber = 3

\* C23: for every sample of a simulateCompleteProtocol trajectory except the
\* last, the infusionRate stored in the sample is the rate used by the RK4
\* step that advances the compartment state to the next sample, also at the
\* steps where an adjustment event is emitted.
C23_RateUsedIsRateRecorded ==
    (pc = "simulate" /\ i > 0 /\ i <= simNumSteps - 1) =>
        rk4Rate = infusionRateMgMinOf(lastSample.infusionRate, sim.weight)

\* The most adjustment events a run can emit: floor(180 / 5) + 1
mostAdjustments == (SIMULATION_DURATION \div 5) + 1

\* C26: a run of simulateCompleteProtocol emits at most floor(180/5) + 1 = 37
\* adjustment events, and once currentRate equals MIN_INFUSION_RATE no further
\* adjustment event is emitted for the rest of the run.
C26_BoundedAdjustments ==
    /\ [](Len(dosageAdjustments) <= mostAdjustments)
    /\ [][(pc = "simulate" /\ currentRate = MIN_INFUSION_RATE) =>
             (dosageAdjustments' = dosageAdjustments
              /\ (pc' = "simulate" => currentRate' = MIN_INFUSION_RATE))]_vars

C26_Witness ==
    /\ pc = "returned"
    /\ currentRate = MIN_INFUSION_RATE
    /\ Len(dosageAdjustments) = 1
    /\ FGe(lastSample.ce, upperThresholdOf(sim.thresholdParams))
    /\ intervalElapsed(DblTimesTenth(simNumSteps - 1), lastAdjustmentTime)

\* C27: in a simulateCompleteProtocol run the first adjustment event's
\* oldRate is the initialContinuousRate argument, each later event's oldRate
\* is the previous event's newRate, and the infusionRate of consecutive
\* samples differs only at a sample whose time is the time of an adjustment
\* event.
C27_RateChain ==
    /\ []((pc \in {"simulate", "returned"}) =>
            /\ \A k \in 1..Len(dosageAdjustments) :
                   dosageAdjustments[k].oldRate =
                       (IF k = 1 THEN sim.initialContinuousRate
                        ELSE dosageAdjustments[k - 1].newRate)
            /\ timeSeriesLen > 0 =>
                   lastSample.infusionRate =
                       (IF dosageAdjustments = <<>> THEN sim.initialContinuousRate
                        ELSE dosageAdjustments[Len(dosageAdjustments)].newRate))
    /\ [][(pc = "simulate" /\ pc' = "simulate" /\ timeSeriesLen > 0
            /\ timeSeriesLen' = timeSeriesLen + 1
            /\ lastSample'.infusionRate # lastSample.infusionRate) =>
             (/\ Len(dosageAdjustments') = Len(dosageAdjustments) + 1
              /\ toFixed1(dosageAdjustments'[Len(dosageAdjustments')].time)
                     = lastSample'.time)]_vars

C27_Witness ==
    /\ pc = "returned"
    /\ Len(dosageAdjustments) >= 3
    /\ dosageAdjustments[3].oldRate = dosageAdjustments[2].newRate
    /\ dosageAdjustments[3].newRate # dosageAdjustments[3].oldRate
    /\ lastSample.infusionRate = dosageAdjustments[Len(dosageAdjustments)].newRate

(***************************************************************************)
(* Properties of optimizeContinuousRate                                    *)
(***************************************************************************)
\* The candidates of the returned table whose error no candidate undercuts
minimalCandidates(allResults) ==
    { k \in 1..Len(allResults) :
        \A j \in 1..Len(allResults) : FLe(allResults[k].error, allResults[j].error) }

\* C5. Grid-search optimality: the returned error is <= the error of every
\* candidate of the returned allResults table, and the returned optimalRate
\* is a candidate of the table with that error.
C5_GridOptimal ==
    pc = "returned" =>
        LET result == optimizationResult
        IN  /\ \A k \in 1..Len(result.allResults) :
                  FLe(result.error, result.allResults[k].error)
            /\ \E k \in 1..Len(result.allResults) :
                  /\ result.allResults[k].rate = result.optimalRate
                  /\ result.allResults[k].error = result.error

\* C6. Tie-break: when candidates share the minimal error, the returned
\* optimalRate is the first of them in scan order, which is the lowest of
\* their rates.
C6_TieBreak ==
    pc = "returned" =>
        LET result  == optimizationResult
            minimal == minimalCandidates(result.allResults)
        IN  minimal # {} =>
              /\ \E k \in minimal :
                    /\ \A j \in minimal : k <= j
                    /\ result.optimalRate = result.allResults[k].rate
              /\ \A j \in minimal :
                    DblLe(result.optimalRate, result.allResults[j].rate)

\* A call has returned from a scan in which several candidates share the
\* minimal error.
C6_Witness ==
    /\ pc = "returned"
    /\ Len(optimizationResult.allResults) > 0
    /\ Cardinality(minimalCandidates(optimizationResult.allResults)) >= 2

\* C13. Boundary behaviour: whenever optimizeContinuousRate has returned from
\* a call with a dose in [1, 15] and a target in [0.5, 3.0], the edges
\* included, the optimalRate it returned is within [0.3, 4.0] and the error
\* it returned is a finite number.
C13_Boundary ==
    (optimizationResult # NoResult
       /\ FGe(opt.bolusDoseMg, Lit(1, 0)) /\ FLe(opt.bolusDoseMg, Lit(15, 0))
       /\ FGe(opt.targetCe, Lit(0, 500000)) /\ FLe(opt.targetCe, Lit(3, 0))) =>
        /\ DblGe(optimizationResult.optimalRate, DblLit(3))
        /\ DblLe(optimizationResult.optimalRate, DblInt(4))
        /\ IsFinite(optimizationResult.error)

\* C18. Inclusive grid: the candidates are 0.3 + 0.1 * n for n = 0..37, in
\* increasing order: 38 of them, the first 0.3 and the last 4.0, and the
\* returned allResults has one entry for each, in that order.
C18_InclusiveGrid ==
    /\ pc = "optimize" =>
          /\ Len(testRates) = 38
          /\ \A k \in 1..Len(testRates) : testRates[k][1] = 3 + (k - 1)
          /\ testRates[1] = DblLit(3)
          /\ testRates[Len(testRates)] = DblInt(4)
    /\ pc = "returned" =>
          /\ Len(optimizationResult.allResults) = 38
          /\ \A k \in 1..Len(optimizationResult.allResults) :
                optimizationResult.allResults[k].rate = testRates[k]

\* C25: for every call of optimizeContinuousRate, whatever the arguments
\* (a NaN target or bolus dose included), the returned optimalRate is the
\* rate of one entry of allResults, the returned error is that entry's error
\* and the returned predictedCe is that entry's ceAtTarget.
C25_ResultIsScannedCandidate ==
    (pc = "returned" /\ optimizationResult # NoResult) =>
        \E k \in 1..Len(optimizationResult.allResults) :
            /\ optimizationResult.allResults[k].rate = optimizationResult.optimalRate
            /\ optimizationResult.allResults[k].error = optimizationResult.error
            /\ optimizationResult.allResults[k].ceAtTarget = optimizationResult.predictedCe

(***************************************************************************)
(* Properties of calculateBolusProtocol                                    *)
(***************************************************************************)
withinRateBounds(rate) ==
    FGe(rate, Lit(0, 100000)) /\ FLe(rate, Lit(6, 0))

\* C2. Rate bounds: in every run of an accepted request, the infusionRate of
\* every sample and the oldRate and newRate of every adjustment event lie in
\* [0.1, 6.0] mg/kg/hr.
C2_RateBounds ==
    frame \in {"main", "comparison"} =>
        /\ timeSeriesLen > 0 => withinRateBounds(lastSample.infusionRate)
        /\ \A k \in 1..Len(dosageAdjustments) :
              /\ withinRateBounds(dosageAdjustments[k].oldRate)
              /\ withinRateBounds(dosageAdjustments[k].newRate)

\* The request names a patient who passes validate(), a dose in [1, 15] and a
\* target in [0.5, 3.0].
requestInRange(r) ==
    /\ validate(r.patient).isValid
    /\ FGe(r.bolusDoseMg, Lit(1, 0)) /\ FLe(r.bolusDoseMg, Lit(15, 0))
    /\ FGe(r.targetCe, Lit(0, 500000)) /\ FLe(r.targetCe, Lit(3, 0))

\* C7. Validation gate: a request gets past the validation block, and so to
\* a result, only if it is in range; any other request is thrown out with no
\* PK parameters calculated and no optimization or simulation begun.
C7_ValidationGate ==
    /\ pc \notin {"idle", "thrown"} => requestInRange(request)
    /\ outcome.kind = "result" => requestInRange(request)
    /\ pc = "thrown" => (pkParams = NoPK /\ finalParams = <<>> /\ optIdle /\ simIdle)

numericRequest(r) ==
    /\ IsFinite(r.patient.age) /\ IsFinite(r.patient.weight) /\ IsFinite(r.patient.height)
    /\ IsFinite(r.bolusDoseMg) /\ IsFinite(r.targetCe)

\* C9. Plasma-before-advance: in simulateBolusAndContinuous and in
\* simulateCompleteProtocol, the effect-site update that takes Ce from time t
\* to t + dt adds dt * ke0 * (plasma - Ce) with the plasma concentration of
\* the compartment state at time t.  In simulateCompleteProtocol the Ce of
\* the previous sample is Ce(t), and that sample's plasma is the plasma of
\* the state at time t.  Stated for the runs of requests whose numbers are
\* all numbers.
C9_PlasmaBeforeAdvance ==
    [][numericRequest(request) =>
       /\ (pc = "optimize" /\ bcStep' = bcStep + 1) =>
             bcCe' = FAdd(bcCe, FMul(Lit(0, 100000),
                                     FMul(opt.pk.ke0,
                                          FSub(FDiv(bcState.a1, opt.pk.v1), bcCe))))
       /\ (pc = "simulate" /\ i > 0 /\ i' = i + 1) =>
             currentCe' = FAdd(currentCe, FMul(Lit(0, 100000),
                                               FMul(sim.pk.ke0,
                                                    FSub(lastSample.plasma, currentCe))))
      ]_vars

\* `shown` is `value` (in millionths) printed with `digits` decimals.
showsFixed(shown, value, digits) ==
    IF IsNaN(value) THEN IsNaN(shown)
    ELSE /\ ~IsNaN(shown)
         /\ 2 * Abs(shown * Pow10(6 - digits) - value) <= Pow10(6 - digits)

\* C19: generateClinicalProtocol returns 2 + n entries for n adjustment
\* events: the bolus, the start of the continuous infusion, then one entry
\* per adjustment in log order; the entries are numbered 1, 2, ..., n + 2,
\* and the k-th reduction entry shows the newRate (two decimals), the time
\* (whole minutes) and the reduction percentage (no decimals) of the k-th
\* adjustment event.
C19_ClinicalSteps ==
    clinicalProtocol # <<>> =>
        LET adjustments == mainRun.dosageAdjustments
            n == Len(adjustments)
        IN  /\ Len(clinicalProtocol) = 2 + n
            /\ \A k \in 1..(n + 2) : clinicalProtocol[k].step = k
            /\ clinicalProtocol[1].method = "bolus"
            /\ clinicalProtocol[1].dose = request.bolusDoseMg
            /\ clinicalProtocol[2].method = "continuous_start"
            /\ \A k \in 1..n :
                   LET entry == clinicalProtocol[k + 2]
                   IN  /\ entry.method = "threshold_reduction"
                       /\ showsFixed(entry.dose, adjustments[k].newRate, 2)
                       /\ showsFixed(entry.notes, adjustments[k].reductionPercent, 0)
                       /\ 2 * Abs(10 * entry.timing - adjustments[k].time[1]) <= 10

C19_Witness ==
    /\ pc = "returned"
    /\ outcome.kind = "result"
    /\ Len(mainRun.dosageAdjustments) >= 2
    /\ outcome.clinicalProtocol = clinicalProtocol
    /\ Len(clinicalProtocol) = Len(mainRun.dosageAdjustments) + 2
    /\ clinicalProtocol[4].step = 4
    /\ clinicalProtocol[4].timing > clinicalProtocol[3].timing

\* What a call handed back, without the measured duration
withoutDuration(o) ==
    IF o.kind = "result" THEN [o EXCEPT !.calculationTimeMs = 0] ELSE o

\* C11: a call of calculateBolusProtocol with the patient, bolus dose,
\* target, overrides and ke0 of an earlier call hands back what the earlier
\* call did: the same optimization result, trajectory (length and checksum),
\* adjustment log, performance metrics, clinical protocol and comparison
\* table, or the same error, whatever call came in between and whatever the
\* clock showed.
C11_Determinism ==
    pc \in {"returned", "thrown"} =>
        \A k \in 1..Len(calls) :
            calls[k].request = request =>
                /\ outcome.kind = calls[k].outcome.kind
                /\ withoutDuration(outcome) = withoutDuration(calls[k].outcome)
                /\ outcome.kind = "result" =>
                       /\ outcome.optimizationResult = calls[k].outcome.optimizationResult
                       /\ outcome.simulationSamples = calls[k].outcome.simulationSamples
                       /\ outcome.simulationDigest = calls[k].outcome.simulationDigest
                       /\ outcome.dosageAdjustments = calls[k].outcome.dosageAdjustments
                       /\ outcome.performance = calls[k].outcome.performance

C11_Witness ==
    /\ pc = "returned"
    /\ Len(calls) = 1
    /\ calls[1].request = request
    /\ calls[1].outcome.kind = "result"
    /\ calls[1].outcome.calculationTimeMs # outcome.calculationTimeMs
    /\ Len(outcome.dosageAdjustments) >= 1
    /\ outcome.simulationSamples = simNumSteps
    /\ outcome.simulationDigest = calls[1].outcome.simulationDigest

\* C24: when the simulateCompleteProtocol run that calculateBolusProtocol
\* starts at the optimizer's rate has emitted no adjustment up to sample
\* n = floor(targetReachTime / 0.1), the Ce of sample n is the predictedCe
\* the optimizer returned, that is what simulateBolusAndContinuous computes
\* for the same PK parameters, bolus dose, rate and time.
C24_OptimizerSimulatorAgreement ==
    (/\ pc = "simulate"
     /\ frame = "main"
     /\ timeSeriesLen = FloorOverTenth(finalParams.targetReachTime) + 1
     /\ dosageAdjustments = <<>>) =>
        lastSample.ce = optimizationResult.predictedCe

\* C28: when the requested bolus dose is one of 3, 5, 7, 10 mg, the
\* comparison row for that dose returned by calculateBolusProtocol has the
\* optimalRate, finalCe, targetAccuracy and adjustment count of the main
\* result of the same call.
C28_ComparisonConsistency ==
    (pc = "returned" /\ outcome.kind = "result") =>
        \A k \in 1..Len(testBolusDoses) :
            testBolusDoses[k] = outcome.bolusDose =>
                /\ k <= Len(outcome.comparisonData)
                /\ LET row == outcome.comparisonData[k]
                   IN  /\ row.bolusDose = outcome.bolusDose
                       /\ row.optimalRate = outcome.optimalContinuousRate
                       /\ row.finalCe = outcome.performance.finalCe
                       /\ row.targetAccuracy = outcome.performance.targetAccuracy
                       /\ row.adjustmentCount = Len(outcome.dosageAdjustments)

C28_Witness ==
    /\ pc = "returned"
    /\ outcome.kind = "result"
    /\ outcome.bolusDose = testBolusDoses[3]
    /\ Len(outcome.dosageAdjustments) >= 1
    /\ outcome.comparisonData[3].adjustmentCount = Len(outcome.dosageAdjustments)
    /\ outcome.comparisonData[3].finalCe = outcome.performance.finalCe
    /\ outcome.performance.maxCe # outcome.performance.finalCe

(***************************************************************************)
(* Properties of generateBolusComparison                                   *)
(***************************************************************************)
\* The doses of testBolusDoses from position k on that are not in `failed`
RECURSIVE survivors(_, _)
survivors(k, failed) ==
    IF k > Len(testBolusDoses) THEN <<>>
    ELSE (IF testBolusDoses[k] \in failed THEN <<>> ELSE <<testBolusDoses[k]>>)
         \o survivors(k + 1, failed)

\* C8. Sweep isolation: a failure while one of the doses 3, 5, 7, 10 is
\* evaluated aborts neither the sweep nor the request: only the validation
\* block makes calculateBolusProtocol throw, the sweep is still running or
\* the request returns after a failure, and the returned table holds exactly
\* the doses that did not fail, in the order 3, 5, 7, 10: all four when none
\* failed.
C8_SweepIsolation ==
    /\ pc = "thrown" => (rejection(request) # <<>> /\ warnings = <<>>)
    /\ warnings # <<>> =>
          (pc \in {"optimize", "simulate"} /\ frame = "comparison")
            \/ (pc = "returned" /\ outcome.kind = "result")
    /\ pc = "returned" =>
          LET failed == { warnings[k] : k \in 1..Len(warnings) }
              doses  == [k \in 1..Len(outcome.comparisonData) |->
                            outcome.comparisonData[k].bolusDose]
          IN  /\ outcome.kind = "result"
              /\ doses = survivors(1, failed)
              /\ failed = {} =>
                    doses = <<Lit(3, 0), Lit(5, 0), Lit(7, 0), Lit(10, 0)>>

\* A request has returned a table after two of the four doses failed.
C8_Witness ==
    /\ pc = "returned"
    /\ Len(warnings) = 2
    /\ Len(outcome.comparisonData) = 2

(***************************************************************************)
(* Properties of the directly called methods                               *)
(***************************************************************************)
noMaintenanceSample(series) == \A k \in 1..Len(series) : series[k].time < 60 * 10

\* C15: when evaluatePerformance (of either engine) is given a trajectory
\* with no sample at time >= 60 min, the empty trajectory included, it
\* returns a metrics record with avgDeviation = Infinity and
\* targetAccuracy = 0.
C15_EmptyWindow ==
    (/\ direct.method \in {"evaluatePerformance", "evaluateBolusPerformance"}
     /\ noMaintenanceSample(direct.timeSeriesData)) =>
        /\ direct.result.avgDeviation = Infinity
        /\ direct.result.targetAccuracy = 0

C15_Witness ==
    /\ direct.method = "evaluatePerformance"
    /\ Len(direct.timeSeriesData) = MaxSeriesLen
    /\ noMaintenanceSample(direct.timeSeriesData)
    /\ direct.timeSeriesData[1].ce = Lit(1, 0)
    /\ direct.result.avgDeviation = Infinity
    /\ direct.result.targetAccuracy = 0

\* C16: for every non-empty trajectory (of numbers) given to
\* evaluatePerformance, the returned maxCe is the maximum Ce over all the
\* samples of the trajectory, whether or not any sample lies in the
\* maintenance window.
C16_MaxCeScope ==
    (/\ direct.method = "evaluatePerformance"
     /\ Len(direct.timeSeriesData) > 0
     /\ \A k \in 1..Len(direct.timeSeriesData) : ~IsNaN(direct.timeSeriesData[k].ce)) =>
        /\ \A k \in 1..Len(direct.timeSeriesData) :
               direct.result.maxCe >= direct.timeSeriesData[k].ce
        /\ \E k \in 1..Len(direct.timeSeriesData) :
               direct.result.maxCe = direct.timeSeriesData[k].ce

\* The score of C17, in millionths
tierScore(performance, adjustments) ==
    performance.targetAccuracy
        + (IF adjustments = 1 THEN 10 * SCALE ELSE 0)
        + (IF /\ ~IsNaN(performance.finalCe)
              /\ performance.finalCe - SCALE < SCALE \div 10
              /\ SCALE - performance.finalCe < SCALE \div 10
           THEN 15 * SCALE ELSE 0)

\* C17: getRecommendationLevel scores targetAccuracy, plus 10 if exactly one
\* adjustment occurred, plus 15 if |finalCe - 1.0| < 0.1, and returns the top
\* tier for a score >= 90, the second for 75 <= score < 90, the third for
\* 60 <= score < 75 and the lowest otherwise; the comparison row carries that
\* one tier.
C17_RecommendationTiers ==
    direct.method = "getRecommendationLevel" =>
        LET score == tierScore(direct.performance, direct.adjustmentCount)
        IN  /\ score >= 90 * SCALE => direct.result = "recommended"
            /\ (score >= 75 * SCALE /\ score < 90 * SCALE) => direct.result = "good"
            /\ (score >= 60 * SCALE /\ score < 75 * SCALE) => direct.result = "acceptable"
            /\ score < 60 * SCALE => direct.result = "needs_review"
            /\ direct.row.recommendation = direct.result
            /\ direct.row.recommendation
                   \in {"recommended", "good", "acceptable", "needs_review"}

C17_Witness ==
    /\ direct.method = "getRecommendationLevel"
    /\ direct.performance.targetAccuracy = Lit(65, 0)
    /\ direct.performance.finalCe = Lit(1, 99999)
    /\ direct.adjustmentCount = 1
    /\ direct.result = "recommended"
    /\ direct.row.recommendation = "recommended"

\* C20: for every bolus dose the initializer returns a1 = dose, a2 = 0,
\* a3 = 0, effect-site concentration 0 and plasma concentration dose / v1,
\* in calculateBolusInitialState and in calculateBolusInitialConcentration
\* alike.
C20_BolusInitialState ==
    (/\ direct.method \in {"calculateBolusInitialState",
                           "calculateBolusInitialConcentration"}
     /\ ~IsNaN(direct.bolusDoseMg)) =>
        /\ direct.result.a1 = direct.bolusDoseMg
        /\ direct.result.a2 = 0
        /\ direct.result.a3 = 0
        /\ direct.result.effectSiteConc = 0
        /\ direct.result.plasmaConc = FDiv(direct.bolusDoseMg, direct.v1)

(***************************************************************************)
(* Properties of BolusOptimizationCalculator                               *)
(***************************************************************************)
\* `shown` millionths is `about` the value `value` printed with three
\* decimals.
aboutMillis(shown, value) == ~IsNaN(shown) /\ 2 * Abs(shown - value) <= 1000

\* C21: for the calculator as constructed (v1 = 3.57, v2 = 11.3, v3 = 27.2,
\* cl = 0.401, ke0 = 0.12, 70 kg), bolus 7 mg, target Ce 1.0 and reach time
\* 20 min, the optimizer selects 0.60 mg/kg/hr with Ce(20 min) about 1.058:
\* absolute error about 0.058, relative about 5.8 %.
C21_WorkedExample ==
    (/\ pc = "returned"
     /\ fixed.method = "optimizeContinuousInfusionRate"
     /\ fixed.this = BolusOptimizationCalculator
     /\ fixed.bolusDoseMg = Lit(7, 0)
     /\ fixed.targetCe = Lit(1, 0)
     /\ fixed.timeToTarget = DblInt(20)) =>
        /\ toFixed(DblToFx(fixed.result.optimalRate), 2) = 60
        /\ aboutMillis(fixed.result.predictedCe, Lit(1, 58000))
        /\ aboutMillis(fixed.result.error, Lit(0, 58000))
        /\ toFixed(FMul(FDiv(fixed.result.error, fixed.targetCe), Lit(100, 0)), 1) = 58

\* The samples of the two engines agree in the fields both record.
sameSample(a, b) ==
    /\ a.time = b.time
    /\ a.ce = b.ce
    /\ a.plasma = b.plasma
    /\ a.infusionRate = b.infusionRate
    /\ a.adjustmentNumber = b.adjustmentNumber

sameEvent(a, b) ==
    /\ a.time = b.time
    /\ a.oldRate = b.oldRate
    /\ a.newRate = b.newRate
    /\ a.ceAtEvent = b.ceAtEvent

\* C22: given the same PK parameters, weight, bolus dose and initial rate,
\* with target 1.0, threshold ratio 1.2 and reduction factor 0.70,
\* simulateCompleteBolusProtocol and simulateCompleteProtocol produce the same
\* sequence of samples (time, ce, plasma, infusionRate, adjustmentNumber) and
\* the same adjustment events (time, oldRate, newRate, ceAtEvent): after
\* every iteration the series have the same length and the same last sample,
\* the logs the same entries, and both loops end together.
C22_EngineEquivalence ==
    fixed.method = "simulateCompleteBolusProtocol" =>
        /\ fixedSimNumSteps(fixed.this) = simNumSteps
        /\ fixed.i = i
        /\ fixed.timeSeriesLen = timeSeriesLen
        /\ timeSeriesLen > 0 => sameSample(fixed.lastSample, lastSample)
        /\ Len(fixed.dosageAdjustments) = Len(dosageAdjustments)
        /\ \A k \in 1..Len(dosageAdjustments) :
               sameEvent(fixed.dosageAdjustments[k], dosageAdjustments[k])

C22_Witness ==
    /\ pc = "returned"
    /\ fixed.method = "simulateCompleteBolusProtocol"
    /\ fixed.timeSeriesLen = 1801
    /\ Len(fixed.dosageAdjustments) >= 2
    /\ fixed.lastSample.ce = lastSample.ce
    /\ fixed.lastSample.ce > 0

(***************************************************************************)
(* Properties of RemimazolamBolusApp                                       *)
(***************************************************************************)
\* A call of generateBolusOptimization has completed and none is running.
generationCompleted ==
    app.constructed /\ ~app.running /\ app.lastGeneration # "none"

\* C29: after every completed call of generateBolusOptimization, whether the
\* calculation or the rendering succeeded or threw, the button is enabled
\* again and the warning section and the results section are not both
\* visible: a successful run shows the results and hides the warning, a
\* failed run shows the warning and hides the results.
C29_UIRunOutcome ==
    generationCompleted =>
        /\ ~app.buttonDisabled
        /\ ~(~app.warningHidden /\ ~app.resultsHidden)
        /\ app.lastGeneration = "succeeded" =>
               (~app.resultsHidden /\ app.warningHidden /\ app.rendered = app.currentResults)
        /\ app.lastGeneration = "failed" =>
               (~app.warningHidden /\ app.resultsHidden)

\* A rendering failure after a successful calculation, on a page that has
\* shown results before.
C29_Witness ==
    /\ generationCompleted
    /\ app.lastGeneration = "failed"
    /\ app.currentResults # NoResults
    /\ app.lastCall.handler = "generateBolusOptimization"
    /\ ~app.buttonDisabled /\ app.resultsHidden /\ ~app.warningHidden

\* C30: printProtocol and exportToCSV output only the results that are
\* currently displayed: whenever the last generation failed and the results
\* section is hidden behind the warning, they produce no output.
C30_NoStaleExport ==
    (/\ app.constructed
     /\ app.lastCall.handler \in {"printProtocol", "exportToCSV"}
     /\ app.lastCall.output # NoOutput) =>
        /\ ~app.resultsHidden
        /\ app.lastGeneration = "succeeded"

=============================================================================
